---- MODULE Spec2Model ----
(***************************************************************************)
(* State-machine model of the session store and the generation             *)
(* orchestration of the image-generation front end (src/App.tsx, v1.7.0    *)
(* unless a definition carries the suffix _v120, and                       *)
(* src/services/geminiService.ts).                                         *)
(*                                                                         *)
(* Every React state cell is a variable. An event handler is one action;   *)
(* an async handler is split at its awaits: the part up to the first       *)
(* await, one action per settling remote call, and the continuation. A     *)
(* handler reads the state cells through the closure of the render in      *)
(* which it was created, so a handler that runs later than it was created  *)
(* (a FileReader callback, the continuation after an await) carries a      *)
(* snapshot of the cells it reads.                                         *)
(***************************************************************************)
EXTENDS Integers, Sequences, FiniteSets, TLC

(***************************************************************************)
(* Bounds of the model                                                     *)
(***************************************************************************)
MaxFiles == 1        \* distinct image files the user can pick from disk
MaxSlotUsed == 1     \* the user works with slots 0..MaxSlotUsed of the uploader
MaxOps == 3          \* remote actions (generate, chat edit, batch item) per run
MaxBatchLen == 3     \* prompts in one batch list
MaxDeleteIndex == 1  \* the user deletes one of the first entries of the history panel
MaxImport == 11     \* longest generation history a project file carries
MaxSnapshots == 1    \* presets, exported files and pending file reads at a time (SpecRefs)
MaxParts == 3       \* most content parts of a response

(***************************************************************************)
(* Program constants                                                       *)
(***************************************************************************)
NumSlots == 3            \* uploadedImages has three fixed slots
MaxVariations == 4       \* the variation buttons are 1..4
HistoryCap == 10         \* slice(0, 10) in handleGenerate / handleChatEdit
BatchHistoryCap == 50    \* slice(0, 50) in handleStartBatch

(***************************************************************************)
(* Values                                                                  *)
(***************************************************************************)
\* An encoded image (a data URL). kind: "none" is JS null; "file" a file the
\* user picked; "stored" a result restored from localStorage; "gen" the image
\* returned to request `req` of remote action `gen`.
NoImage == [kind |-> "none", gen |-> 0, req |-> 0]
FileImage(k) == [kind |-> "file", gen |-> 0, req |-> k]
StoredImage(k) == [kind |-> "stored", gen |-> 0, req |-> k]
GenImage(g, i) == [kind |-> "gen", gen |-> g, req |-> i]
Files == {FileImage(k) : k \in 1..MaxFiles}

Slots == 0..(NumSlots - 1)
EmptySlots == [i \in Slots |-> NoImage]
UsedSlots == {i \in Slots : i <= MaxSlotUsed}

NullIndex == -1          \* styleReferenceIndex === null
NoMasking == [src |-> NoImage, index |-> NullIndex]   \* maskingImage === null (v1.2.0)
NoLock == [index |-> NullIndex, lockAppearance |-> FALSE, lockClothing |-> FALSE]
NullSeed == -1           \* a null seed; the seed input holding ''
NullText == "<null>"     \* a null string (error, selectedHistoryImageSrc)
NoDocument == [version |-> "<none>"]     \* no project file yet
NoResponse == [received |-> FALSE, candidates |-> <<>>]   \* nothing received yet
NotParsed == [status |-> "none"]         \* the normalizer has not run
IdleAnalysis == [pc |-> "idle", kind |-> "", index |-> 0, sent |-> FALSE]

PREDEFINED_ASPECT_RATIOS == {"1:1", "16:9", "4:3", "9:16", "3:4"}
Layers == {"pose", "canny", "depth", "scribble"}
initialControlLayers == [l \in Layers |-> NoImage]
InactiveEdit == [isActive |-> FALSE, imageSrc |-> NoImage,
                 editImage |-> NoImage, editMask |-> NoImage]

\* GenerationResult: { image, seed } (text and groundingChunks play no part)
Result(img, s) == [image |-> img, seed |-> s]

Min(a, b) == IF a < b THEN a ELSE b
\* Array.prototype.slice(0, n)
Slice(s, n) == SubSeq(s, 1, Min(Len(s), n))
Range(s) == {s[i] : i \in DOMAIN s}

VARIABLES
    \* --- session state (useState cells of App, v1.7.0) ---
    uploadedImages, prompt, controlLayers, editingState,
    lockedCharacter, styleReferenceIndex, seed, isSeedLocked,
    aspectRatio, customAspectRatio, useGoogleSearch, numberOfVariations,
    promptHistory, generationHistory, results, selectedHistoryImageSrc,
    isLoading, loadingMessage, error, chatHistory, isChatLoading,
    batchPrompts, batchResults, isBatchRunning, currentBatchIndex,
    \* --- cells that exist only in v1.2.0 ---
    editMode, canvasImage, maskImage, maskingImage,
    \* --- environment ---
    apiKey,          \* process.env.API_KEY is set
    storedAspectRatio,   \* localStorage item 'ai-app-aspectRatio'
    exported,        \* the project file written by the last export
    imported,        \* the project file read by the last import
    response,        \* a GenerateContentResponse handed to the normalizer
    parsed,          \* what parseImageGenerationResponse made of it
    analysis,        \* the pose / style analysis or control-map generation in flight
    \* --- the user's libraries (kept in localStorage) ---
    promptTemplates, editingTemplateIndex, workflowPresets,
    \* --- handlers in flight ---
    reader,          \* FileReader of ImageUploader.processFile
    gen,             \* handleGenerate invocations awaiting their remote calls
    chat,            \* handleChatEdit invocations awaiting editImageWithChat
    batch,           \* the handleStartBatch loop
    nextOp,          \* remote actions started so far (names their images)
    \* --- history variable ---
    generated        \* results produced so far by successful Generate actions

slotVars == <<uploadedImages, lockedCharacter, styleReferenceIndex,
              aspectRatio, customAspectRatio>>
configVars == <<prompt, controlLayers, editingState, seed, isSeedLocked,
                useGoogleSearch, numberOfVariations>>
resultVars == <<generationHistory, results, selectedHistoryImageSrc>>
busyVars == <<isLoading, loadingMessage, error>>
chatVars == <<chatHistory, isChatLoading>>
batchVars == <<batchPrompts, batchResults, isBatchRunning, currentBatchIndex>>
v120Vars == <<editMode, canvasImage, maskImage, maskingImage>>
flightVars == <<reader, gen, chat, batch, nextOp, generated>>
libVars == <<promptTemplates, editingTemplateIndex, workflowPresets>>
auxVars == <<exported, imported, response, parsed, analysis, libVars>>

vars == <<slotVars, configVars, promptHistory, resultVars, busyVars, chatVars,
          batchVars, v120Vars, apiKey, storedAspectRatio, auxVars, flightVars>>

(***************************************************************************)
(* Derived values of a render (App.tsx 1311-1323)                          *)
(***************************************************************************)
HasAny(images) == \E i \in Slots : images[i] # NoImage
hasImages == HasAny(uploadedImages)
hasPrompt == prompt # ""                       \* prompt.trim().length > 0
hasActiveControl == \E l \in Layers : controlLayers[l] # NoImage
\* uploadedImages.filter(img => img !== null)
ValidImages(images) ==
    LET keep(x) == x # NoImage
    IN SelectSeq([i \in 1..NumSlots |-> images[i - 1]], keep)

\* The effect that syncs the custom aspect-ratio input (App.tsx 898-904);
\* it runs when aspectRatio has changed.
CustomAfter(ratio) ==
    IF ratio # "original" /\ ratio \notin PREDEFINED_ASPECT_RATIOS THEN ratio ELSE ""
SyncCustomAspectRatio ==
    customAspectRatio' =
        IF aspectRatio' # aspectRatio THEN CustomAfter(aspectRatio')
        ELSE customAspectRatio

\* The effect that saves the ratio (App.tsx 907): it runs on mount and when
\* aspectRatio has changed, and stores whatever the cell holds.
SaveAspectRatio ==
    storedAspectRatio' =
        IF aspectRatio' # aspectRatio THEN aspectRatio' ELSE storedAspectRatio
\* The same effect in v1.2.0 (App.tsx 129-133), which skips 'original'.
SaveAspectRatio_v120 ==
    storedAspectRatio' =
        IF aspectRatio' # aspectRatio /\ aspectRatio' # "original" THEN aspectRatio'
        ELSE storedAspectRatio

\* The cells handleImageUpload reads through its closure (its useCallback
\* dependency list, App.tsx 923), as of the current render.
Closure == [uploadedImages |-> uploadedImages, aspectRatio |-> aspectRatio,
            lockedCharacter |-> lockedCharacter,
            styleReferenceIndex |-> styleReferenceIndex]

(***************************************************************************)
(* Uploaded images, character lock, style reference                        *)
(***************************************************************************)
\* handleImageUpload(images), run with the closure c of the render that
\* created it. A cell it does not set keeps its current value.
LockAfterUpload(images, c) ==
    IF c.lockedCharacter # NoLock /\ images[c.lockedCharacter.index] = NoImage
    THEN NoLock ELSE lockedCharacter
StyleAfterUpload(images, c) ==
    IF c.styleReferenceIndex # NullIndex /\ images[c.styleReferenceIndex] = NoImage
    THEN NullIndex ELSE styleReferenceIndex
RatioAfterUpload(images, c) ==
    LET hadImages == HasAny(c.uploadedImages)
        nowHasImages == HasAny(images)
    IN IF ~hadImages /\ nowHasImages THEN "original"
       ELSE IF hadImages /\ ~nowHasImages /\ c.aspectRatio = "original" THEN "1:1"
       ELSE aspectRatio
handleImageUpload(images, c) ==
    /\ lockedCharacter' = LockAfterUpload(images, c)
    /\ styleReferenceIndex' = StyleAfterUpload(images, c)
    /\ uploadedImages' = images
    /\ aspectRatio' = RatioAfterUpload(images, c)
    /\ SyncCustomAspectRatio
    /\ SaveAspectRatio

\* ImageUploader.processFile: the file is read asynchronously; onloadend
\* keeps the images and the onImageUpload of the render that started it.
processFile ==
    /\ reader.state = "idle"
    /\ \E index \in UsedSlots, file \in Files :
        reader' = [state |-> "reading", index |-> index, file |-> file,
                   images |-> uploadedImages, closure |-> Closure]
    /\ UNCHANGED <<slotVars, configVars, promptHistory, resultVars, busyVars,
                   chatVars, batchVars, v120Vars, apiKey, auxVars,
                   storedAspectRatio, gen, chat, batch, nextOp, generated>>
IdleReader == [state |-> "idle", index |-> 0, file |-> NoImage,
               images |-> EmptySlots,
               closure |-> [uploadedImages |-> EmptySlots, aspectRatio |-> "1:1",
                            lockedCharacter |-> NoLock,
                            styleReferenceIndex |-> NullIndex]]
\* reader.onloadend
readerLoadEnd ==
    /\ reader.state = "reading"
    /\ handleImageUpload([reader.images EXCEPT ![reader.index] = reader.file],
                         reader.closure)
    /\ reader' = IdleReader
    /\ UNCHANGED <<configVars, promptHistory, resultVars, busyVars,
                   chatVars, batchVars, v120Vars, apiKey, auxVars,
                   gen, chat, batch, nextOp, generated>>
\* ImageUploader.handleRemoveImage(index): the button exists on a filled slot
handleRemoveImage ==
    /\ \E index \in UsedSlots :
        /\ uploadedImages[index] # NoImage
        /\ handleImageUpload([uploadedImages EXCEPT ![index] = NoImage], Closure)
    /\ UNCHANGED <<configVars, promptHistory, resultVars, busyVars,
                   chatVars, batchVars, v120Vars, apiKey, auxVars, flightVars>>
\* ImageUploader.handleCropComplete: the cropped image replaces the slot's
handleCropComplete ==
    /\ \E index \in UsedSlots, cropped \in Files :
        /\ uploadedImages[index] # NoImage
        /\ handleImageUpload([uploadedImages EXCEPT ![index] = cropped], Closure)
    /\ UNCHANGED <<configVars, promptHistory, resultVars, busyVars,
                   chatVars, batchVars, v120Vars, apiKey, auxVars, flightVars>>

\* handleUseAsInput(image, slotIndex), from a result card or a history entry
\* The result cards are rendered while nothing is loading and no error is
\* shown (GeneratedResult); the history panel is always rendered.
CardsVisible == ~isLoading /\ error = NullText /\ results # <<>>
UsableImages ==
    {r.image : r \in (IF CardsVisible THEN Range(results) ELSE {})
                      \cup Range(generationHistory)} \ {NoImage}
handleUseAsInput ==
    /\ \E image \in UsableImages, slotIndex \in UsedSlots :
        uploadedImages' = [uploadedImages EXCEPT ![slotIndex] = image]
    /\ chatHistory' = <<>>
    /\ UNCHANGED <<lockedCharacter, styleReferenceIndex, aspectRatio,
                   customAspectRatio, configVars, promptHistory, resultVars,
                   busyVars, isChatLoading, batchVars, v120Vars, apiKey,
                   auxVars, storedAspectRatio, flightVars>>

\* handleSetCharacterLock(index, lock), from the lock menu of a filled slot
LockChoices == {<<TRUE, FALSE>>, <<FALSE, TRUE>>, <<TRUE, TRUE>>, <<FALSE, FALSE>>}
handleSetCharacterLock ==
    /\ \E index \in UsedSlots, lock \in LockChoices :
        /\ uploadedImages[index] # NoImage
        /\ lock = <<FALSE, FALSE>> => lockedCharacter.index = index
        /\ lockedCharacter' =
              IF lock[1] \/ lock[2]
              THEN [index |-> index, lockAppearance |-> lock[1], lockClothing |-> lock[2]]
              ELSE NoLock
    /\ UNCHANGED <<uploadedImages, styleReferenceIndex, aspectRatio,
                   customAspectRatio, configVars, promptHistory, resultVars,
                   busyVars, chatVars, batchVars, v120Vars, apiKey,
                   auxVars, storedAspectRatio, flightVars>>
\* handleToggleStyleReference(index), from the button of a filled slot
handleToggleStyleReference ==
    /\ \E index \in UsedSlots :
        /\ uploadedImages[index] # NoImage
        /\ styleReferenceIndex' = IF styleReferenceIndex = index THEN NullIndex ELSE index
    /\ UNCHANGED <<uploadedImages, lockedCharacter, aspectRatio,
                   customAspectRatio, configVars, promptHistory, resultVars,
                   busyVars, chatVars, batchVars, v120Vars, apiKey,
                   auxVars, storedAspectRatio, flightVars>>
\* AspectRatioButton.onClick: setAspectRatio(value); "original" is disabled
\* while no image is uploaded
AspectChoices == {"1:1", "16:9", "original"}
setAspectRatio ==
    /\ \E value \in AspectChoices :
        /\ value = "original" => hasImages
        /\ aspectRatio' = value
    /\ SyncCustomAspectRatio
    /\ SaveAspectRatio
    /\ UNCHANGED <<uploadedImages, lockedCharacter, styleReferenceIndex,
                   configVars, promptHistory, resultVars,
                   busyVars, chatVars, batchVars, v120Vars, apiKey, auxVars, flightVars>>

\* handleCustomAspectRatioChange (App.tsx 1303-1309): the text is kept in
\* the input; when it reads as w:h or w/h it becomes the aspect ratio, the
\* slash replaced by a colon. The sync effect then rewrites the input from
\* the new ratio.
CustomEntries == {"21:9", "2 / 1", "wide"}
IsRatioEntry(value) == value \in {"21:9", "2 / 1"}
SlashToColon(value) == IF value = "2 / 1" THEN "2:1" ELSE value
handleCustomAspectRatioChange ==
    /\ \E value \in CustomEntries :
        /\ aspectRatio' = IF IsRatioEntry(value) THEN SlashToColon(value)
                          ELSE aspectRatio
        /\ customAspectRatio' = IF aspectRatio' # aspectRatio
                                THEN CustomAfter(aspectRatio') ELSE value
    /\ SaveAspectRatio
    /\ UNCHANGED <<uploadedImages, lockedCharacter, styleReferenceIndex,
                   configVars, promptHistory, resultVars,
                   busyVars, chatVars, batchVars, v120Vars, apiKey, auxVars, flightVars>>

(***************************************************************************)
(* Configuration handlers                                                  *)
(***************************************************************************)
Prompts == {"", "add a red hat"}
\* handlePromptChange(text)
handlePromptChange ==
    /\ \E text \in Prompts : prompt' = text
    /\ UNCHANGED <<slotVars, controlLayers, editingState, seed, isSeedLocked,
                   useGoogleSearch, numberOfVariations, promptHistory, resultVars,
                   busyVars, chatVars, batchVars, v120Vars, apiKey,
                   auxVars, storedAspectRatio, flightVars>>
\* the variation buttons: setNumberOfVariations(v)
setNumberOfVariations ==
    /\ \E v \in 1..MaxVariations : numberOfVariations' = v
    /\ UNCHANGED <<slotVars, prompt, controlLayers, editingState, seed, isSeedLocked,
                   useGoogleSearch, promptHistory, resultVars,
                   busyVars, chatVars, batchVars, v120Vars, apiKey,
                   auxVars, storedAspectRatio, flightVars>>
\* PromptEditor.onUseGoogleSearchChange
setUseGoogleSearch ==
    /\ useGoogleSearch' = ~useGoogleSearch
    /\ UNCHANGED <<slotVars, prompt, controlLayers, editingState, seed, isSeedLocked,
                   numberOfVariations, promptHistory, resultVars,
                   busyVars, chatVars, batchVars, v120Vars, apiKey,
                   auxVars, storedAspectRatio, flightVars>>
\* the seed input: onChange keeps the digits of the text ('' is NullSeed)
SeedInputs == {NullSeed, 0, 42}
setSeed ==
    /\ \E value \in SeedInputs : seed' = value
    /\ UNCHANGED <<slotVars, prompt, controlLayers, editingState, isSeedLocked,
                   useGoogleSearch, numberOfVariations, promptHistory, resultVars,
                   busyVars, chatVars, batchVars, v120Vars, apiKey,
                   auxVars, storedAspectRatio, flightVars>>
\* the lock button next to the seed input
setIsSeedLocked ==
    /\ isSeedLocked' = ~isSeedLocked
    /\ UNCHANGED <<slotVars, prompt, controlLayers, editingState, seed,
                   useGoogleSearch, numberOfVariations, promptHistory, resultVars,
                   busyVars, chatVars, batchVars, v120Vars, apiKey,
                   auxVars, storedAspectRatio, flightVars>>
\* handleLayersUpdate(layers): a scribble is drawn or wiped
ScribbleImage == [kind |-> "drawing", gen |-> 0, req |-> 1]
handleLayersUpdate ==
    /\ \E image \in {NoImage, ScribbleImage} :
        controlLayers' = [controlLayers EXCEPT !.scribble = image]
    /\ UNCHANGED <<slotVars, prompt, editingState, seed, isSeedLocked,
                   useGoogleSearch, numberOfVariations, promptHistory, resultVars,
                   busyVars, chatVars, batchVars, v120Vars, apiKey,
                   auxVars, storedAspectRatio, flightVars>>
\* handleStartEditing(imageSrc), from a result card
handleStartEditing ==
    /\ CardsVisible
    /\ \E r \in Range(results) :
        /\ r.image # NoImage
        /\ editingState' = [InactiveEdit EXCEPT !.isActive = TRUE, !.imageSrc = r.image]
    /\ UNCHANGED <<slotVars, prompt, controlLayers, seed, isSeedLocked,
                   useGoogleSearch, numberOfVariations, promptHistory, resultVars,
                   busyVars, chatVars, batchVars, v120Vars, apiKey,
                   auxVars, storedAspectRatio, flightVars>>
\* HistoryPanel: a click on an entry, handleSelectFromHistory(result)
\* (App.tsx 941-945); String(result.seed || '')
handleSelectFromHistory ==
    /\ \E k \in DOMAIN generationHistory :
        LET result == generationHistory[k]
        IN /\ results' = <<result>>
           /\ selectedHistoryImageSrc' = result.image
           /\ seed' = IF result.seed # NullSeed /\ result.seed # 0 THEN result.seed
                      ELSE NullSeed
    /\ UNCHANGED <<slotVars, prompt, controlLayers, editingState, isSeedLocked,
                   useGoogleSearch, numberOfVariations, promptHistory,
                   generationHistory, busyVars, chatVars, batchVars, v120Vars, apiKey,
                   auxVars, storedAspectRatio, flightVars>>
\* handleCloseEditor, from the canvas rendered while an edit is active
CanvasOpen == editingState.isActive /\ editingState.imageSrc # NoImage
handleCloseEditor ==
    /\ CanvasOpen
    /\ editingState' = InactiveEdit
    /\ UNCHANGED <<slotVars, prompt, controlLayers, seed, isSeedLocked,
                   useGoogleSearch, numberOfVariations, promptHistory, resultVars,
                   busyVars, chatVars, batchVars, v120Vars, apiKey,
                   auxVars, storedAspectRatio, flightVars>>

(***************************************************************************)
(* handleGenerate (App.tsx 1087-1163) and the dispatcher it awaits         *)
(***************************************************************************)
ErrInvalid == "check your input: a prompt, or control layers and input images, are needed"
ErrNoKey == "API_KEY environment variable not set"
ErrRemote == "the remote call failed"

\* The if / else-if chain of handleGenerate (App.tsx 1110-1136)
SelectCase(ces, activeControl, withPrompt, imageCount) ==
    IF ces.isActive /\ ces.editImage # NoImage /\ ces.editMask # NoImage
        THEN "mask-edit"
    ELSE IF activeControl THEN "control-layers"
    ELSE IF withPrompt /\ imageCount = 0 THEN "text-to-image"
    ELSE IF withPrompt /\ imageCount > 0 THEN "image-edit"
    ELSE "invalid"

\* setPromptHistory(prev => [trimmed, ...prev.filter(p => p !== trimmed)].slice(0, 50))
PromptHistoryCap == 50
PushPrompt(history, text) ==
    LET other(p) == p # text
    IN Slice(<<text>> \o SelectSeq(history, other), PromptHistoryCap)

\* (isSeedLocked && seed) ? parseInt(seed, 10) : null
CurrentSeed == IF isSeedLocked /\ seed # NullSeed THEN seed ELSE NullSeed

\* How many remote calls the selected operation issues: generateImageFromPrompt
\* without search grounding makes one generateImages call for all the images,
\* every other operation one generateContent call per variation.
CallCount(case, search, n) == IF case = "text-to-image" /\ ~search THEN 1 ELSE n

\* A handleGenerate invocation: its position, the values it keeps from the
\* render that started it, and the promises it awaits. calls[i] is the state
\* of the i-th remote call, settled the order in which the calls settled.
\* returned / serverSeed: the number of images and the seed a generateImages
\* response carried.
IdleGen == [pc |-> "idle", op |-> 0, case |-> "invalid", multi |-> FALSE,
            ces |-> InactiveEdit, prompt |-> "", firstImage |-> NoImage,
            activeControl |-> FALSE,
            seed |-> NullSeed, seedLocked |-> FALSE, ratio |-> "",
            calls |-> <<>>, settled |-> <<>>,
            returned |-> 0, serverSeed |-> NullSeed]

\* getAspectRatioFromDataUrl(validImages[0]): the reduced W:H of the image
ImageRatio == "3:2"
\* customAspectRatio || aspectRatio
CustomOrRatio == IF customAspectRatio # "" THEN customAspectRatio ELSE aspectRatio
\* finalAspectRatio of the selected case (App.tsx 1113, 1118, 1124, 1130)
FinalAspectRatio(case, imageCount) ==
    CASE case = "mask-edit" -> "edit"
      [] case = "control-layers" ->
            IF aspectRatio = "original" /\ imageCount > 0 THEN ImageRatio ELSE CustomOrRatio
      [] case = "text-to-image" -> CustomOrRatio
      [] case = "image-edit" ->
            IF aspectRatio = "original" THEN ImageRatio ELSE CustomOrRatio
      [] OTHER -> ""

\* Promise.all(generationPromises): the values in the order of the promises
\* it was given, each { ...parseImageGenerationResponse(response), seed }
\* (geminiService.ts 206-213, 267-277, 339-349)
PromiseAllCompletionOrder(g) ==
    [k \in 1..Len(g.settled) |-> Result(GenImage(g.op, g.settled[k]), g.seed)]
PromiseAllServerSeed(g) ==
    [i \in 1..Len(g.calls) |-> Result(GenImage(g.op, i), g.serverSeed)]
PromiseAll(g) ==
    [i \in 1..Len(g.calls) |-> Result(GenImage(g.op, i), g.seed)]
\* response.generatedImages.map(...) (geminiService.ts 117-125)
ImagenResults(g) ==
    [i \in 1..g.returned |-> Result(GenImage(g.op, i), g.serverSeed)]
GeneratedResults(g) == IF g.multi THEN PromiseAll(g) ELSE ImagenResults(g)

\* a seed that passes `generatedResults[0]?.seed &&`
Truthy(s) == s # NullSeed /\ s # 0

\* The synchronous part of handleGenerate(currentEditingState), up to its
\* first await; an invalid state or a missing API key throws before any
\* remote call and runs catch and finally at once. editingState is written
\* by the caller.
BeginGenerate(ces) ==
    LET validImages == ValidImages(uploadedImages)
        case == SelectCase(ces, hasActiveControl, hasPrompt, Len(validImages))
        multi == ~(case = "text-to-image" /\ ~useGoogleSearch)
        thrown == case = "invalid" \/ ~apiKey
        g == [IdleGen EXCEPT !.op = nextOp + 1, !.case = case, !.multi = multi,
                 !.ces = ces, !.prompt = prompt, !.activeControl = hasActiveControl,
                 !.firstImage = IF validImages = <<>> THEN NoImage ELSE validImages[1],
                 !.seed = CurrentSeed, !.seedLocked = isSeedLocked,
                 !.ratio = FinalAspectRatio(case, Len(validImages))]
    IN /\ nextOp < MaxOps
       /\ promptHistory' = IF hasPrompt THEN PushPrompt(promptHistory, prompt)
                           ELSE promptHistory
       /\ IF ces.isActive
          THEN UNCHANGED <<results, selectedHistoryImageSrc, chatHistory>>
          ELSE /\ results' = <<>>
               /\ selectedHistoryImageSrc' = NoImage
               /\ chatHistory' = <<>>
       /\ IF thrown
          THEN /\ error' = IF case = "invalid" THEN ErrInvalid ELSE ErrNoKey
               /\ isLoading' = FALSE
               /\ loadingMessage' = ""
               /\ gen' = [g EXCEPT !.pc = "failed", !.op = 0]
               /\ nextOp' = nextOp
          ELSE /\ error' = NullText
               /\ isLoading' = TRUE
               /\ loadingMessage' = case
               /\ gen' = [g EXCEPT !.pc = "awaiting",
                             !.calls = [i \in 1..CallCount(case, useGoogleSearch,
                                                           numberOfVariations)
                                          |-> "pending"]]
               /\ nextOp' = nextOp + 1
       /\ UNCHANGED <<slotVars, prompt, controlLayers, seed, isSeedLocked,
                      useGoogleSearch, numberOfVariations, generationHistory,
                      isChatLoading, batchVars, v120Vars, apiKey, auxVars, storedAspectRatio, reader, chat,
                      batch, generated>>

\* isBusy and isGenerateDisabled (App.tsx 1314-1323). isAnalyzingPose and
\* isAnalyzingStyle hold a slot index and are tested with `!!`, which is
\* false for slot 0; generatingControlMap holds an object.
isBusy ==
    \/ isLoading
    \/ /\ analysis.pc = "awaiting"
       /\ analysis.kind \in {"canny", "depth"} \/ analysis.index # 0
\* isGenerateDisabled without the busy test
isGenerateDisabledWhileIdleOnly ==
    IF editingState.isActive THEN TRUE
    ELSE ~hasPrompt /\ ~hasActiveControl
isGenerateDisabled ==
    IF isBusy \/ editingState.isActive THEN TRUE
    ELSE IF editingState.isActive THEN ~hasPrompt
    ELSE ~hasPrompt /\ ~hasActiveControl

\* the Generate button: handleGenerate() with the editing state of the render
handleGenerate ==
    /\ ~isGenerateDisabled
    /\ BeginGenerate(editingState)
    /\ editingState' = IF SelectCase(editingState, hasActiveControl, hasPrompt,
                                     Len(ValidImages(uploadedImages))) = "invalid"
                          \/ ~apiKey
                       THEN InactiveEdit ELSE editingState

\* GenerativeCanvas confirm: handleEditConfirm(editData), then onClose()
MaskImage == [kind |-> "mask", gen |-> 0, req |-> 1]
handleEditConfirm ==
    /\ CanvasOpen
    /\ BeginGenerate([isActive |-> TRUE, imageSrc |-> editingState.imageSrc,
                      editImage |-> editingState.imageSrc, editMask |-> MaskImage])
    /\ editingState' = InactiveEdit

\* setGenerationHistory(prev => [...generatedResults, ...prev].slice(0, cap))
InsertAtTail(generatedResults, prev, cap) == Slice(prev \o generatedResults, cap)
InsertHistory(generatedResults, prev, cap) == Slice(generatedResults \o prev, cap)

\* handleGenerate after its await resolved (App.tsx 1138-1155, 1158-1162)
CompleteGenerate(g) ==
    LET generatedResults == GeneratedResults(g)
    IN /\ results' =
            IF g.ces.isActive
            THEN [k \in DOMAIN results |->
                     IF results[k].image = g.ces.imageSrc THEN generatedResults[1]
                     ELSE results[k]]
            ELSE generatedResults
       /\ generationHistory' = InsertHistory(generatedResults, generationHistory, HistoryCap)
       /\ seed' = IF Truthy(generatedResults[1].seed) /\ ~g.seedLocked
                  THEN generatedResults[1].seed ELSE seed
       /\ chatHistory' =
            IF Len(generatedResults) = 1 /\ generatedResults[1].image # NoImage
                  /\ ~g.ces.isActive
            THEN << [role |-> "user", text |-> g.prompt, image |-> g.firstImage],
                    [role |-> "model", text |-> "", image |-> generatedResults[1].image] >>
            ELSE chatHistory
       /\ isLoading' = FALSE
       /\ loadingMessage' = ""
       /\ editingState' = InactiveEdit
       /\ gen' = [g EXCEPT !.pc = "done"]
       /\ generated' = generated + Len(generatedResults)
       /\ UNCHANGED <<error, selectedHistoryImageSrc>>
\* handleGenerate after its await rejected (App.tsx 1156-1162)
KeepSettledResults(g) ==
    LET ok(i) == g.calls[i] = "ok"
        partial == [k \in 1..Len(SelectSeq(g.settled, ok)) |->
                       Result(GenImage(g.op, SelectSeq(g.settled, ok)[k]), g.seed)]
    IN /\ error' = ErrRemote
       /\ isLoading' = FALSE
       /\ loadingMessage' = ""
       /\ editingState' = InactiveEdit
       /\ gen' = [g EXCEPT !.pc = "failed"]
       /\ results' = partial
       /\ generationHistory' = InsertHistory(partial, generationHistory, HistoryCap)
       /\ UNCHANGED <<selectedHistoryImageSrc, seed, chatHistory, generated>>
\* a rejection that also empties the history panel
FailGenerateClearsHistory(g) ==
    /\ error' = ErrRemote
    /\ isLoading' = FALSE
    /\ loadingMessage' = ""
    /\ editingState' = InactiveEdit
    /\ gen' = [g EXCEPT !.pc = "failed"]
    /\ generationHistory' = <<>>
    /\ UNCHANGED <<results, selectedHistoryImageSrc, seed, chatHistory, generated>>
FailGenerate(g) ==
    /\ error' = ErrRemote
    /\ isLoading' = FALSE
    /\ loadingMessage' = ""
    /\ editingState' = InactiveEdit
    /\ gen' = [g EXCEPT !.pc = "failed"]
    /\ UNCHANGED <<resultVars, seed, chatHistory, generated>>

\* One remote call of the Generate action in flight settles. The join of
\* Promise.all rejects with the first rejection and resolves when every call
\* has resolved; the continuation of handleGenerate runs in the same task.
ServerSeeds == {NullSeed, 7}
remoteCallSettles ==
    /\ gen.pc = "awaiting"
    /\ \E i \in DOMAIN gen.calls, outcome \in {"ok", "fail"},
          returned \in 1..numberOfVariations, serverSeed \in ServerSeeds :
        /\ gen.calls[i] = "pending"
        /\ gen.multi => returned = 1 /\ serverSeed = NullSeed
        /\ outcome = "fail" => returned = 1 /\ serverSeed = NullSeed
        /\ LET g == [gen EXCEPT !.calls[i] = outcome, !.settled = Append(@, i),
                         !.returned = IF gen.multi \/ outcome = "fail" THEN 0 ELSE returned,
                         !.serverSeed = serverSeed]
           IN IF outcome = "fail" THEN FailGenerate(g)
              ELSE IF \A k \in DOMAIN g.calls : g.calls[k] = "ok" THEN CompleteGenerate(g)
              ELSE /\ gen' = g
                   /\ UNCHANGED <<resultVars, busyVars, seed, chatHistory,
                                  editingState, generated>>
    /\ UNCHANGED <<slotVars, prompt, controlLayers, isSeedLocked, useGoogleSearch,
                   numberOfVariations, promptHistory, isChatLoading, batchVars,
                   v120Vars, apiKey, auxVars, storedAspectRatio, reader, chat, batch, nextOp>>

\* handleDeleteFromHistory(resultToDelete), from the history panel
handleDeleteFromHistory ==
    /\ \E resultToDelete \in Range(Slice(generationHistory, MaxDeleteIndex)) :
        LET other(r) == r.image # resultToDelete.image
            shown == Len(results) = 1 /\ results[1].image = resultToDelete.image
        IN /\ generationHistory' = SelectSeq(generationHistory, other)
           /\ results' = IF shown THEN <<>> ELSE results
           /\ selectedHistoryImageSrc' = IF shown THEN NoImage ELSE selectedHistoryImageSrc
    /\ UNCHANGED <<slotVars, configVars, promptHistory, busyVars, chatVars,
                   batchVars, v120Vars, apiKey,
                   auxVars, storedAspectRatio, flightVars>>
\* handleClearHistory
handleClearHistory ==
    /\ generationHistory' = <<>>
    /\ results' = <<>>
    /\ selectedHistoryImageSrc' = NoImage
    /\ chatHistory' = <<>>
    /\ UNCHANGED <<slotVars, configVars, promptHistory, busyVars, isChatLoading,
                   batchVars, v120Vars, apiKey,
                   auxVars, storedAspectRatio, flightVars>>

(***************************************************************************)
(* handleChatEdit (App.tsx 1066-1084)                                      *)
(***************************************************************************)
\* ChatMessage: { role, text?, image? }
ChatMessage(role, text, image) == [role |-> role, text |-> text, image |-> image]
\* A handleChatEdit invocation: history is the chatHistory of the render that
\* started it, which is what editImageWithChat is given.
IdleChat == [pc |-> "idle", op |-> 0, history |-> <<>>, chatPrompt |-> "",
             seed |-> NullSeed, seedLocked |-> FALSE, ratio |-> "", sent |-> FALSE]
ChatPrompts == {"make it blue"}
\* ChatEditor is rendered under these conditions and renders nothing for an
\* empty history (App.tsx 1475, ChatEditor)
ChatEditorVisible ==
    /\ results # <<>>
    /\ ~isLoading
    /\ error = NullText
    /\ numberOfVariations = 1
    /\ chatHistory # <<>>
\* ChatEditor.handleSend -> handleChatEdit(chatPrompt), up to its await
handleChatEdit ==
    /\ ChatEditorVisible
    /\ ~isChatLoading
    /\ nextOp < MaxOps
    /\ \E chatPrompt \in ChatPrompts :
        /\ chatHistory' = Append(chatHistory, ChatMessage("user", chatPrompt, NoImage))
        /\ chat' = [pc |-> "awaiting", op |-> nextOp + 1, history |-> chatHistory,
                    chatPrompt |-> chatPrompt, seed |-> CurrentSeed,
                    seedLocked |-> isSeedLocked,
                    ratio |-> IF aspectRatio = "original" /\ hasImages THEN ImageRatio
                              ELSE CustomOrRatio,
                    sent |-> apiKey]
    /\ isChatLoading' = TRUE
    /\ error' = NullText
    /\ nextOp' = nextOp + 1
    /\ UNCHANGED <<slotVars, configVars, promptHistory, resultVars, isLoading,
                   loadingMessage, batchVars, v120Vars, apiKey, auxVars, storedAspectRatio, reader, gen, batch,
                   generated>>
\* editImageWithChat settles, and handleChatEdit runs to its end; without an
\* API key it has thrown before sending anything (geminiService.ts 372-374)
chatCallSettles ==
    /\ chat.pc = "awaiting"
    /\ \E outcome \in {"ok", "fail"} :
        /\ outcome = "ok" => chat.sent
        /\ LET result == Result(GenImage(chat.op, 1), chat.seed)
           IN IF outcome = "ok"
              THEN /\ results' = <<result>>
                   /\ chatHistory' = Append(chatHistory, ChatMessage("model", "", result.image))
                   /\ generationHistory' =
                        InsertHistory(<<result>>, generationHistory, HistoryCap)
                   /\ seed' = IF Truthy(result.seed) /\ ~chat.seedLocked
                              THEN result.seed ELSE seed
                   /\ UNCHANGED error
              ELSE /\ error' = IF chat.sent THEN ErrRemote ELSE ErrNoKey
                   /\ UNCHANGED <<results, chatHistory, generationHistory, seed>>
        /\ chat' = [chat EXCEPT !.pc = IF outcome = "ok" THEN "done" ELSE "failed"]
    /\ isChatLoading' = FALSE
    /\ UNCHANGED <<slotVars, prompt, controlLayers, editingState, isSeedLocked,
                   useGoogleSearch, numberOfVariations, promptHistory,
                   selectedHistoryImageSrc, isLoading, loadingMessage, batchVars,
                   v120Vars, apiKey, auxVars, storedAspectRatio, reader, gen, batch, nextOp, generated>>

(***************************************************************************)
(* handleStartBatch (App.tsx 1165-1196)                                    *)
(***************************************************************************)
\* The loop of a handleStartBatch invocation: the prompt list, the values it
\* keeps from the render that started it, and per processed item the remote
\* action that served it and how that ended.
IdleBatch == [pc |-> "idle", prompts |-> <<>>, validImages |-> <<>>,
              promptHistory |-> <<>>, seed |-> NullSeed, ratio |-> "",
              ops |-> <<>>, outcomes |-> <<>>]
BatchPrompts == {"a cat", "a dog"}
RECURSIVE SeqsUpTo(_, _)
SeqsUpTo(S, n) ==
    IF n = 0 THEN {<<>>}
    ELSE LET shorter == SeqsUpTo(S, n - 1)
         IN shorter \cup {Append(q, x) : q \in shorter, x \in S}
\* BatchProcessModal.handleStart passes a non-empty list of non-empty lines
PromptLists == SeqsUpTo(BatchPrompts, MaxBatchLen) \ {<<>>}

\* a loop that issues the calls of all remaining items without awaiting
BatchIterationAllAtOnce(b) ==
    LET i == Len(b.outcomes)
        currentPrompt == b.prompts[i + 1]
        remaining == Len(b.prompts) - Len(b.ops)
    IN /\ currentBatchIndex' = i
       /\ promptHistory' =
            IF \A k \in DOMAIN b.promptHistory : b.promptHistory[k] # currentPrompt
            THEN Slice(<<currentPrompt>> \o promptHistory, PromptHistoryCap)
            ELSE promptHistory
       /\ batch' = [b EXCEPT !.pc = "awaiting",
                             !.ops = @ \o [k \in 1..remaining |-> nextOp + k]]
       /\ nextOp' = nextOp + remaining
\* the head of one loop iteration, up to its await (App.tsx 1173-1186)
BatchIteration(b) ==
    LET i == Len(b.outcomes)
        currentPrompt == b.prompts[i + 1]
    IN /\ currentBatchIndex' = i
       /\ promptHistory' =
            IF \A k \in DOMAIN b.promptHistory : b.promptHistory[k] # currentPrompt
            THEN Slice(<<currentPrompt>> \o promptHistory, PromptHistoryCap)
            ELSE promptHistory
       /\ batch' = [b EXCEPT !.pc = "awaiting", !.ops = Append(@, nextOp + 1)]
       /\ nextOp' = nextOp + 1
\* after the loop (App.tsx 1195)
BatchEnd(b) ==
    /\ isBatchRunning' = FALSE
    /\ batch' = [b EXCEPT !.pc = "done"]
    /\ UNCHANGED <<currentBatchIndex, promptHistory, nextOp>>
\* a failure inside one iteration ends the whole run
AbortBatch(b) == BatchEnd(b)
\* the catch block of an iteration logs the failure; the loop goes on
BatchItemFailed(b) ==
    IF Len(b.outcomes) < Len(b.prompts)
    THEN BatchIteration(b) /\ UNCHANGED isBatchRunning
    ELSE BatchEnd(b)
BatchContinue(b) ==
    IF Len(b.outcomes) < Len(b.prompts)
    THEN BatchIteration(b) /\ UNCHANGED isBatchRunning
    ELSE BatchEnd(b)

\* the start button of the batch window, shown while no batch is running;
\* the window is opened from a button that is disabled without an image
handleStartBatch ==
    /\ hasImages
    /\ ~isBatchRunning
    /\ \E promptsToProcess \in PromptLists :
        /\ nextOp + Len(promptsToProcess) <= MaxOps
        /\ batchPrompts' = promptsToProcess
        /\ BatchIteration([IdleBatch EXCEPT
              !.prompts = promptsToProcess,
              !.validImages = ValidImages(uploadedImages),
              !.promptHistory = promptHistory,
              !.seed = CurrentSeed,
              !.ratio = IF aspectRatio = "original" /\ hasImages THEN ImageRatio
                        ELSE CustomOrRatio])
    /\ batchResults' = <<>>
    /\ isBatchRunning' = TRUE
    /\ UNCHANGED <<slotVars, configVars, resultVars, busyVars, chatVars, v120Vars,
                   apiKey, auxVars, storedAspectRatio, reader, gen, chat, generated>>

\* the editImageWithPrompt call of the current item settles (one variation);
\* without an API key it can only reject
batchCallSettles ==
    /\ batch.pc = "awaiting"
    /\ \E outcome \in {"ok", "fail"} :
        /\ outcome = "ok" => apiKey
        /\ LET b == [batch EXCEPT !.outcomes = Append(@, outcome)]
               op == batch.ops[Len(batch.ops)]
               seedForBatch == IF b.seed = NullSeed THEN NullSeed
                               ELSE b.seed + Len(batch.outcomes)
               generatedResults == << Result(GenImage(op, 1), seedForBatch) >>
           IN IF outcome = "ok"
              THEN /\ batchResults' = batchResults \o generatedResults
                   /\ generationHistory' =
                        InsertHistory(generatedResults, generationHistory, BatchHistoryCap)
                   /\ BatchContinue(b)
              ELSE /\ UNCHANGED <<batchResults, generationHistory>>
                   /\ BatchItemFailed(b)
    /\ UNCHANGED <<slotVars, configVars, results, selectedHistoryImageSrc, busyVars,
                   chatVars, batchPrompts, v120Vars, apiKey, auxVars, storedAspectRatio, reader, gen, chat, generated>>

(***************************************************************************)
(* v1.2.0 (App.tsx 1-746): the handlers that differ from v1.7.0            *)
(***************************************************************************)
\* the draw-mode buttons (App.tsx 608-611)
setEditMode_v120 ==
    /\ \E mode \in {"pose", "prompt"} : editMode' = mode
    /\ UNCHANGED <<slotVars, configVars, promptHistory, resultVars, busyVars,
                   chatVars, batchVars, canvasImage, maskImage, maskingImage, apiKey,
                   auxVars, storedAspectRatio, flightVars>>
\* handleCanvasUpdate(dataUrl): the rendered skeleton, or null
PoseCanvas == [kind |-> "drawing", gen |-> 0, req |-> 2]
handleCanvasUpdate_v120 ==
    /\ \E dataUrl \in {NoImage, PoseCanvas} : canvasImage' = dataUrl
    /\ UNCHANGED <<slotVars, configVars, promptHistory, resultVars, busyVars,
                   chatVars, batchVars, editMode, maskImage, maskingImage, apiKey,
                   auxVars, storedAspectRatio, flightVars>>

\* The if / else-if chain of handleGenerate, v1.2.0 (App.tsx 337-364)
SelectCase_v120(mode, withPrompt, validImages, mask, canvas) ==
    IF mode = "prompt" /\ withPrompt /\ validImages # <<>> /\ mask # NoImage
        THEN "mask-edit"
    ELSE IF mode = "prompt" /\ withPrompt /\ validImages = <<>> THEN "text-to-image"
    ELSE IF mode = "pose" /\ canvas # NoImage /\ validImages # <<>> THEN "pose-driven"
    ELSE IF mode = "prompt" /\ withPrompt /\ validImages # <<>> THEN "image-edit"
    ELSE "invalid"
\* the message of the invalid case cut down to its first line
ErrInvalidPrefixOnly_v120(mode, withPrompt, validImages, canvas) ==
    "check your input."
\* the message of the invalid case (App.tsx 359-362)
ErrInvalid_v120(mode, withPrompt, validImages, canvas) ==
    "check your input."
    \o (IF validImages = <<>> /\ (mode = "pose" \/ (mode = "prompt" /\ ~withPrompt))
        THEN " an input image is needed." ELSE "")
    \o (IF mode = "pose" /\ canvas = NoImage THEN " a pose drawing is needed." ELSE "")
    \o (IF mode = "prompt" /\ ~withPrompt THEN " a text prompt is needed." ELSE "")

\* isGenerateDisabled, v1.2.0 (App.tsx 544-551); the analysis flag is not
\* modelled
isGenerateDisabled_v120 ==
    IF isLoading \/ maskingImage # NoMasking THEN TRUE
    ELSE IF editMode = "pose" THEN ~hasImages \/ canvasImage = NoImage
    ELSE IF editMode = "prompt" THEN ~hasPrompt
    ELSE FALSE

\* handleGenerate, v1.2.0, up to its await (App.tsx 305-364)
BeginGenerate_v120 ==
    LET validImages == ValidImages(uploadedImages)
        case == SelectCase_v120(editMode, hasPrompt, validImages, maskImage, canvasImage)
        thrown == case = "invalid" \/ ~apiKey
        g == [IdleGen EXCEPT !.op = nextOp + 1, !.case = case,
                 !.multi = case # "text-to-image", !.prompt = prompt,
                 !.firstImage = IF validImages = <<>> THEN NoImage ELSE validImages[1],
                 !.ratio = IF aspectRatio = "original"
                           THEN (IF validImages # <<>> THEN ImageRatio ELSE "1:1")
                           ELSE aspectRatio]
    IN /\ nextOp < MaxOps
       /\ promptHistory' = IF hasPrompt THEN PushPrompt(promptHistory, prompt)
                           ELSE promptHistory
       /\ results' = <<>>
       /\ selectedHistoryImageSrc' = NoImage
       /\ IF thrown
          THEN /\ error' = IF case = "invalid"
                           THEN ErrInvalid_v120(editMode, hasPrompt, validImages, canvasImage)
                           ELSE ErrNoKey
               /\ isLoading' = FALSE
               /\ loadingMessage' = ""
               /\ gen' = [g EXCEPT !.pc = "failed", !.op = 0]
               /\ nextOp' = nextOp
          ELSE /\ error' = NullText
               /\ isLoading' = TRUE
               /\ loadingMessage' = case
               /\ gen' = [g EXCEPT !.pc = "awaiting",
                             !.calls = [i \in 1..CallCount(case, FALSE, numberOfVariations)
                                          |-> "pending"]]
               /\ nextOp' = nextOp + 1
       /\ UNCHANGED <<slotVars, configVars, generationHistory, chatVars, batchVars,
                      v120Vars, apiKey, auxVars, storedAspectRatio, reader, chat, batch, generated>>
\* the Generate button, v1.2.0 (App.tsx 700-702)
handleGenerate_v120 ==
    /\ ~isGenerateDisabled_v120
    /\ BeginGenerate_v120
\* handleGenerate, v1.2.0, called whatever the button's state is
callHandleGenerate_v120 ==
    /\ ~isLoading
    /\ BeginGenerate_v120
\* a remote call of the v1.2.0 Generate action settles; the continuation of
\* handleGenerate (App.tsx 366-374) runs with the join
remoteCallSettles_v120 ==
    /\ gen.pc = "awaiting"
    /\ \E i \in DOMAIN gen.calls, outcome \in {"ok", "fail"},
          returned \in 1..numberOfVariations :
        /\ gen.calls[i] = "pending"
        /\ (gen.multi \/ outcome = "fail") => returned = 1
        /\ LET g == [gen EXCEPT !.calls[i] = outcome, !.settled = Append(@, i),
                         !.returned = IF gen.multi \/ outcome = "fail" THEN 0 ELSE returned]
               generatedResults == GeneratedResults(g)
           IN IF outcome = "fail"
              THEN /\ error' = ErrRemote
                   /\ isLoading' = FALSE
                   /\ loadingMessage' = ""
                   /\ gen' = [g EXCEPT !.pc = "failed"]
                   /\ UNCHANGED <<resultVars, generated>>
              ELSE IF \A k \in DOMAIN g.calls : g.calls[k] = "ok"
              THEN /\ results' = generatedResults
                   /\ generationHistory' =
                        InsertHistory(generatedResults, generationHistory, HistoryCap)
                   /\ isLoading' = FALSE
                   /\ loadingMessage' = ""
                   /\ gen' = [g EXCEPT !.pc = "done"]
                   /\ generated' = generated + Len(generatedResults)
                   /\ UNCHANGED <<error, selectedHistoryImageSrc>>
              ELSE /\ gen' = g
                   /\ UNCHANGED <<resultVars, busyVars, generated>>
    /\ UNCHANGED <<slotVars, configVars, promptHistory, chatVars, batchVars,
                   v120Vars, apiKey, auxVars, storedAspectRatio, reader, chat, batch, nextOp>>

(***************************************************************************)
(* The mask flow of v1.2.0 (App.tsx 163-207, 293-303, 728-734)             *)
(***************************************************************************)
\* the files picked in the mask flow, and the mask painted on an image
MaskFlowFiles == {FileImage(1), FileImage(2)}
PaintedMask(src, index) == [kind |-> "mask", gen |-> 0, req |-> index, on |-> src]
\* handleImageUpload(images), v1.2.0 (App.tsx 163-181)
handleImageUpload_v120(images) ==
    LET previouslyHadImages == HasAny(uploadedImages)
        nowHasImages == HasAny(images)
    IN /\ lockedCharacter' =
            IF lockedCharacter # NoLock /\ images[lockedCharacter.index] = NoImage
            THEN NoLock ELSE lockedCharacter
       /\ styleReferenceIndex' =
            IF styleReferenceIndex # NullIndex /\ images[styleReferenceIndex] = NoImage
            THEN NullIndex ELSE styleReferenceIndex
       /\ uploadedImages' = images
       /\ maskImage' = NoImage
       /\ aspectRatio' =
            IF ~previouslyHadImages /\ nowHasImages THEN "original"
            ELSE IF previouslyHadImages /\ ~nowHasImages /\ aspectRatio = "original"
            THEN "1:1" ELSE aspectRatio
       /\ SyncCustomAspectRatio
       /\ SaveAspectRatio_v120
\* the uploader hands over the slots with one slot filled from a file, or
\* with one slot emptied
uploadOrRemove_v120 ==
    /\ maskingImage = NoMasking
    /\ \E index \in Slots, image \in MaskFlowFiles \cup {NoImage} :
        /\ image # uploadedImages[index]
        /\ handleImageUpload_v120([uploadedImages EXCEPT ![index] = image])
    /\ UNCHANGED <<configVars, promptHistory, resultVars, busyVars, chatVars,
                   batchVars, editMode, canvasImage, maskingImage, apiKey, auxVars,
                   flightVars>>
\* handleStartMasking(image, index) from the mask button of a filled slot
handleStartMasking_v120 ==
    /\ maskingImage = NoMasking
    /\ ~isLoading
    /\ \E index \in Slots :
        /\ uploadedImages[index] # NoImage
        /\ maskingImage' = [src |-> uploadedImages[index], index |-> index]
    /\ UNCHANGED <<slotVars, configVars, promptHistory, resultVars, busyVars,
                   chatVars, batchVars, editMode, canvasImage, maskImage, apiKey,
                   auxVars, storedAspectRatio, flightVars>>
\* handleMaskComplete(maskDataUrl) from the editor opened on maskingImage.src
handleMaskComplete_v120 ==
    /\ maskingImage # NoMasking
    /\ maskImage' = PaintedMask(maskingImage.src, maskingImage.index)
    /\ maskingImage' = NoMasking
    /\ editMode' = "prompt"
    /\ UNCHANGED <<slotVars, configVars, promptHistory, resultVars, busyVars,
                   chatVars, batchVars, canvasImage, apiKey,
                   auxVars, storedAspectRatio, flightVars>>

\* handleDeleteFromHistory and handleClearHistory, v1.2.0 (App.tsx 214-226)
handleDeleteFromHistory_v120 ==
    /\ \E resultToDelete \in Range(Slice(generationHistory, MaxDeleteIndex)) :
        LET other(r) == r.image # resultToDelete.image
            shown == Len(results) = 1 /\ results[1].image = resultToDelete.image
        IN /\ generationHistory' = SelectSeq(generationHistory, other)
           /\ results' = IF shown THEN <<>> ELSE results
           /\ selectedHistoryImageSrc' = IF shown THEN NoImage ELSE selectedHistoryImageSrc
    /\ UNCHANGED <<slotVars, configVars, promptHistory, busyVars, chatVars,
                   batchVars, v120Vars, apiKey,
                   auxVars, storedAspectRatio, flightVars>>
handleClearHistory_v120 ==
    /\ generationHistory' = <<>>
    /\ results' = <<>>
    /\ selectedHistoryImageSrc' = NoImage
    /\ UNCHANGED <<slotVars, configVars, promptHistory, busyVars, chatVars,
                   batchVars, v120Vars, apiKey,
                   auxVars, storedAspectRatio, flightVars>>

\* A project file as handleImportProject parses it. version "" is a document
\* without version; an absent or null field holds the null of its type
\* (NoImage, "", NoLock, NullIndex, 0, <<>>); uploadedImages absent is <<>>.
AppMajorVersion_v120 == 1
MajorVersion(version) ==
    CASE version = "1.2.0" -> 1
      [] version = "1.7.0" -> 1
      [] version = "0.9.0" -> 0
      [] version = "2.0.0" -> 2
      [] OTHER -> -1                                   \* parseInt gives NaN
ImportedHistory(n) == [i \in 1..n |-> Result([kind |-> "imported", gen |-> 0, req |-> i], NullSeed)]
ProjectFiles ==
    [version : {"1.2.0", "2.0.0"},
     uploadedImages : {EmptySlots, [EmptySlots EXCEPT ![0] = FileImage(1)]},
     canvasImage : {NoImage},
     prompt : {""},
     maskImage : {NoImage},
     lockedCharacter : {NoLock},
     styleReferenceIndex : {NullIndex},
     editMode : {""},
     aspectRatio : {"", "16:9"},
     numberOfVariations : {0},
     promptHistory : {<<>>},
     generationHistory : {ImportedHistory(n) : n \in {0, 1, MaxImport}}]
ErrVersion == "unsupported project version"
ErrNoVersion == "invalid project file"

\* handleImportProject, v1.2.0: reader.onload (App.tsx 418-492)
handleImportProject_v120 ==
    /\ \E data \in ProjectFiles :
        IF data.version = "" THEN
            /\ error' = ErrNoVersion
            /\ UNCHANGED <<slotVars, prompt, numberOfVariations, promptHistory,
                           resultVars, v120Vars,
                           storedAspectRatio>>
        ELSE IF MajorVersion(data.version) = -1
                  \/ MajorVersion(data.version) > AppMajorVersion_v120 THEN
            /\ error' = ErrVersion
            /\ UNCHANGED <<slotVars, prompt, numberOfVariations, promptHistory,
                           resultVars, v120Vars,
                           storedAspectRatio>>
        ELSE
            /\ error' = NullText
            /\ uploadedImages' = data.uploadedImages
            /\ canvasImage' = data.canvasImage
            /\ prompt' = data.prompt
            /\ maskImage' = data.maskImage
            /\ lockedCharacter' = data.lockedCharacter
            /\ styleReferenceIndex' = IF data.styleReferenceIndex = 0 THEN NullIndex
                                      ELSE data.styleReferenceIndex
            /\ editMode' = IF data.editMode = "" THEN "pose" ELSE data.editMode
            /\ aspectRatio' = IF data.aspectRatio = "" THEN "1:1" ELSE data.aspectRatio
            /\ SyncCustomAspectRatio
            /\ SaveAspectRatio_v120
            /\ numberOfVariations' = IF data.numberOfVariations = 0 THEN 1
                                     ELSE data.numberOfVariations
            /\ promptHistory' = data.promptHistory
            /\ generationHistory' = data.generationHistory
            /\ results' = <<>>
            /\ selectedHistoryImageSrc' = NoImage
    /\ UNCHANGED <<controlLayers, editingState, seed, isSeedLocked, useGoogleSearch,
                   isLoading, loadingMessage, chatVars, batchVars, maskingImage,
                   apiKey, auxVars, flightVars>>

(***************************************************************************)
(* Pose and style analysis, control-map generation (App.tsx 984-1042)      *)
(***************************************************************************)
\* handleAnalyzePose, handleAnalyzeStyle, handleGenerateControlMap up to
\* their await, from the buttons of a filled slot; the model follows one of
\* them at a time. analyzePose, analyzeStyle, generateCannyEdgeMap and
\* generateDepthMap throw before sending anything when no API key is set
\* (geminiService.ts 516, 568, 644, 670).
StartAnalysisSendsFirst(kind) ==
    /\ analysis.pc # "awaiting"
    /\ \E index \in UsedSlots :
        /\ uploadedImages[index] # NoImage
        /\ analysis' = [pc |-> IF apiKey THEN "awaiting" ELSE "failed",
                        kind |-> kind, index |-> index, sent |-> TRUE]
    /\ error' = IF apiKey THEN NullText ELSE ErrNoKey
    /\ results' = <<>>
    /\ chatHistory' = IF kind = "pose" THEN <<>> ELSE chatHistory
    /\ UNCHANGED <<slotVars, configVars, promptHistory, generationHistory,
                   selectedHistoryImageSrc, isLoading, loadingMessage, isChatLoading,
                   batchVars, v120Vars, apiKey, storedAspectRatio,
                   libVars, exported, imported, response, parsed, flightVars>>
StartAnalysis(kind) ==
    /\ analysis.pc # "awaiting"
    /\ \E index \in UsedSlots :
        /\ uploadedImages[index] # NoImage
        /\ analysis' = [pc |-> IF apiKey THEN "awaiting" ELSE "failed",
                        kind |-> kind, index |-> index, sent |-> apiKey]
    /\ error' = IF apiKey THEN NullText ELSE ErrNoKey
    /\ results' = <<>>
    /\ chatHistory' = IF kind = "pose" THEN <<>> ELSE chatHistory
    /\ UNCHANGED <<slotVars, configVars, promptHistory, generationHistory,
                   selectedHistoryImageSrc, isLoading, loadingMessage, isChatLoading,
                   batchVars, v120Vars, apiKey, storedAspectRatio,
                   libVars, exported, imported, response, parsed, flightVars>>
handleAnalyzePose == StartAnalysis("pose")
handleAnalyzeStyle == StartAnalysis("style")
handleGenerateControlMap == \E type \in {"canny", "depth"} : StartAnalysis(type)
\* the awaited service call settles and the handler runs to its end
analysisSettles ==
    /\ analysis.pc = "awaiting"
    /\ \E outcome \in {"ok", "fail"} :
        /\ analysis' = [analysis EXCEPT !.pc = IF outcome = "ok" THEN "done" ELSE "failed"]
        /\ error' = IF outcome = "ok" THEN error ELSE ErrRemote
        /\ controlLayers' =
              IF outcome = "fail" \/ analysis.kind = "style" THEN controlLayers
              ELSE IF analysis.kind = "pose"
              THEN [controlLayers EXCEPT !["pose"] = NoImage]
              ELSE [controlLayers EXCEPT
                       ![analysis.kind] = [kind |-> analysis.kind, gen |-> 0,
                                           req |-> analysis.index]]
    /\ UNCHANGED <<slotVars, prompt, editingState, seed, isSeedLocked,
                   useGoogleSearch, numberOfVariations, promptHistory, resultVars,
                   isLoading, loadingMessage, chatVars, batchVars, v120Vars, apiKey,
                   storedAspectRatio, exported, imported, response, parsed,
                   libVars, flightVars>>

(***************************************************************************)
(* Prompt templates (App.tsx 963-983, PromptEditor part_007 34-232)        *)
(***************************************************************************)
TemplateCap == 20
\* What the prompt box and the inline editor can hold, and String.trim of it
TemplateInputs == {"", "  ", "sunset", " sunset ", "portrait", "stored 1"}
Trim(text) ==
    CASE text = "  " -> ""
      [] text = " sunset " -> "sunset"
      [] OTHER -> text
\* the list localStorage holds under 'ai-app-promptTemplates', written by
\* earlier sessions of the same handlers
StoredTemplates(n) == [i \in 1..n |-> "stored " \o ToString(i)]
\* the rows of the template menu the user acts on: the first two
TemplateRows == {0, 1} \cap (0..(Len(promptTemplates) - 1))

\* handleSavePromptTemplate(prompt) from the save button, which is disabled
\* while the prompt is blank; a save that appends instead of testing
SavePromptTemplateUntested(template) ==
    LET trimmed == Trim(template)
    IN promptTemplates' = IF trimmed # ""
                          THEN Slice(<<trimmed>> \o promptTemplates, TemplateCap)
                          ELSE promptTemplates
SavePromptTemplate(template) ==
    LET trimmed == Trim(template)
        includes == \E k \in DOMAIN promptTemplates : promptTemplates[k] = trimmed
    IN promptTemplates' = IF trimmed # "" /\ ~includes
                          THEN Slice(<<trimmed>> \o promptTemplates, TemplateCap)
                          ELSE promptTemplates
handleSavePromptTemplate ==
    /\ \E template \in TemplateInputs :
        /\ Trim(template) # ""
        /\ SavePromptTemplate(template)
    /\ UNCHANGED <<slotVars, configVars, promptHistory, resultVars, busyVars,
                   chatVars, batchVars, v120Vars, apiKey, storedAspectRatio,
                   exported, imported, response, parsed, analysis,
                   editingTemplateIndex, workflowPresets, flightVars>>
\* handleDeletePromptTemplate(template) from the delete button of a row that
\* is not being edited
handleDeletePromptTemplate ==
    /\ \E index \in TemplateRows \ {editingTemplateIndex} :
        LET other(t) == t # promptTemplates[index + 1]
        IN promptTemplates' = SelectSeq(promptTemplates, other)
    /\ UNCHANGED <<slotVars, configVars, promptHistory, resultVars, busyVars,
                   chatVars, batchVars, v120Vars, apiKey, storedAspectRatio,
                   exported, imported, response, parsed, analysis,
                   editingTemplateIndex, workflowPresets, flightVars>>
\* the edit button of a row, and the cancel button of the inline editor (a
\* click outside the menu does the same)
startEditingTemplate ==
    /\ \E index \in TemplateRows \ {editingTemplateIndex} :
        editingTemplateIndex' = index
    /\ UNCHANGED <<slotVars, configVars, promptHistory, resultVars, busyVars,
                   chatVars, batchVars, v120Vars, apiKey, storedAspectRatio,
                   exported, imported, response, parsed, analysis,
                   promptTemplates, workflowPresets, flightVars>>
cancelEditingTemplate ==
    /\ editingTemplateIndex # NullIndex
    /\ editingTemplateIndex' = NullIndex
    /\ UNCHANGED <<slotVars, configVars, promptHistory, resultVars, busyVars,
                   chatVars, batchVars, v120Vars, apiKey, storedAspectRatio,
                   exported, imported, response, parsed, analysis,
                   promptTemplates, workflowPresets, flightVars>>
\* the save button of the inline editor: handleUpdatePromptTemplate(index,
\* editingTemplateText), then setEditingTemplateIndex(null). The row of
\* editingTemplateIndex is rendered only while the list is that long.
handleUpdatePromptTemplate ==
    /\ editingTemplateIndex \in 0..(Len(promptTemplates) - 1)
    /\ \E newText \in TemplateInputs :
        LET index == editingTemplateIndex
            trimmed == Trim(newText)
            taken == \E k \in DOMAIN promptTemplates :
                        k # index + 1 /\ promptTemplates[k] = trimmed
        IN promptTemplates' = IF trimmed = "" \/ taken THEN promptTemplates
                              ELSE [promptTemplates EXCEPT ![index + 1] = trimmed]
    /\ editingTemplateIndex' = NullIndex
    /\ UNCHANGED <<slotVars, configVars, promptHistory, resultVars, busyVars,
                   chatVars, batchVars, v120Vars, apiKey, storedAspectRatio,
                   exported, imported, response, parsed, analysis,
                   workflowPresets, flightVars>>

(***************************************************************************)
(* Workflow presets (App.tsx 1259-1301, SettingsManager part_008 26-31)    *)
(***************************************************************************)
\* the names typed into the prompt() of SettingsManager.handleSavePreset,
\* already trimmed and non-empty
PresetNames == {"portrait", "night", "draft"}
\* the cells a preset records
PresetState ==
    [uploadedImages |-> uploadedImages, prompt |-> prompt,
     controlLayers |-> controlLayers, lockedCharacter |-> lockedCharacter,
     styleReferenceIndex |-> styleReferenceIndex, aspectRatio |-> aspectRatio,
     useGoogleSearch |-> useGoogleSearch, numberOfVariations |-> numberOfVariations,
     seed |-> seed, isSeedLocked |-> isSeedLocked]
\* setWorkflowPresets(prev => [preset, ...prev.filter(p => p.name !== name)])
\* and the same without the filter
PutPresetUnfiltered(preset, prev) == <<preset>> \o prev
PutPreset(preset, prev) ==
    LET other(p) == p.name # preset.name
    IN <<preset>> \o SelectSeq(prev, other)
\* handleSavePreset(name); confirmed is the answer to the confirm() dialog,
\* which is asked only when the name is taken
handleSavePreset ==
    /\ \E name \in PresetNames, confirmed \in BOOLEAN :
        LET taken == \E k \in DOMAIN workflowPresets : workflowPresets[k].name = name
        IN workflowPresets' =
              IF taken /\ ~confirmed THEN workflowPresets
              ELSE PutPreset([name |-> name, state |-> PresetState], workflowPresets)
    /\ UNCHANGED <<slotVars, configVars, promptHistory, resultVars, busyVars,
                   chatVars, batchVars, v120Vars, apiKey, storedAspectRatio,
                   exported, imported, response, parsed, analysis,
                   promptTemplates, editingTemplateIndex, flightVars>>
\* handleDeletePreset(presetName) from the delete button of a listed preset
handleDeletePreset ==
    /\ \E k \in DOMAIN workflowPresets, confirmed \in BOOLEAN :
        LET presetName == workflowPresets[k].name
            other(p) == p.name # presetName
        IN workflowPresets' = IF confirmed THEN SelectSeq(workflowPresets, other)
                              ELSE workflowPresets
    /\ UNCHANGED <<slotVars, configVars, promptHistory, resultVars, busyVars,
                   chatVars, batchVars, v120Vars, apiKey, storedAspectRatio,
                   exported, imported, response, parsed, analysis,
                   promptTemplates, editingTemplateIndex, flightVars>>
\* handleLoadPreset(preset) from the name of a listed preset
handleLoadPreset ==
    /\ \E k \in DOMAIN workflowPresets :
        LET s == workflowPresets[k].state
        IN /\ uploadedImages' = s.uploadedImages
           /\ prompt' = s.prompt
           /\ controlLayers' = s.controlLayers
           /\ lockedCharacter' = s.lockedCharacter
           /\ styleReferenceIndex' = s.styleReferenceIndex
           /\ aspectRatio' = s.aspectRatio
           /\ SyncCustomAspectRatio
           /\ SaveAspectRatio
           /\ useGoogleSearch' = s.useGoogleSearch
           /\ numberOfVariations' = s.numberOfVariations
           /\ seed' = s.seed
           /\ isSeedLocked' = s.isSeedLocked
    /\ results' = <<>>
    /\ selectedHistoryImageSrc' = NoImage
    /\ chatHistory' = <<>>
    /\ UNCHANGED <<editingState, promptHistory, generationHistory, busyVars,
                   isChatLoading, batchVars, v120Vars, apiKey, exported, imported,
                   response, parsed, analysis, libVars, flightVars>>

(***************************************************************************)
(* Response normalization (geminiService.ts 22-48)                         *)
(***************************************************************************)
\* The content parts of a candidate: inline image data, or text (which may
\* be the empty string).
InlinePart(data) == [kind |-> "inlineData", mimeType |-> "image/png", data |-> data, text |-> ""]
TextPart(text) == [kind |-> "text", mimeType |-> "", data |-> "", text |-> text]
Parts == {InlinePart("iVBOR"), InlinePart("R0lGO"),
          TextPart("I cannot "), TextPart("draw that."), TextPart("")}
\* The responses of generateContent: no candidate, or one candidate with up
\* to MaxParts content parts (no request sets candidateCount).
Responses == {[received |-> TRUE, candidates |-> c] :
                 c \in {<<>>} \cup {<<parts>> : parts \in SeqsUpTo(Parts, MaxParts)}}
ErrNoImage == "The API did not return an image. It might have refused the request. "
\* the for loop over response.candidates[0].content.parts
RECURSIVE ScanPartsKeepLastText(_, _, _)
ScanPartsKeepLastText(parts, generatedImage, generatedText) ==
    IF parts = <<>> THEN [image |-> generatedImage, text |-> generatedText]
    ELSE LET part == Head(parts)
         IN IF part.kind = "inlineData"
            THEN ScanPartsKeepLastText(Tail(parts),
                     "data:" \o part.mimeType \o ";base64," \o part.data, generatedText)
            ELSE IF part.text # ""
            THEN ScanPartsKeepLastText(Tail(parts), generatedImage, part.text)
            ELSE ScanPartsKeepLastText(Tail(parts), generatedImage, generatedText)
RECURSIVE ScanParts(_, _, _)
ScanParts(parts, generatedImage, generatedText) ==
    IF parts = <<>> THEN [image |-> generatedImage, text |-> generatedText]
    ELSE LET part == Head(parts)
         IN IF part.kind = "inlineData"
            THEN ScanParts(Tail(parts),
                     "data:" \o part.mimeType \o ";base64," \o part.data, generatedText)
            ELSE IF part.text # ""
            THEN ScanParts(Tail(parts), generatedImage,
                     (IF generatedText = NullText THEN "" ELSE generatedText) \o part.text)
            ELSE ScanParts(Tail(parts), generatedImage, generatedText)
parseImageGenerationResponse(r) ==
    LET parts == IF r.candidates # <<>> THEN r.candidates[1] ELSE <<>>
        scan == ScanParts(parts, NullText, NullText)
    IN IF scan.image = NullText
       THEN [status |-> "thrown", image |-> NullText, text |-> NullText,
             message |-> ErrNoImage \o (IF scan.text = NullText THEN "" ELSE scan.text)]
       ELSE [status |-> "returned", image |-> scan.image, text |-> scan.text,
             message |-> NullText]

\* ai.models.generateContent resolves with a response
generateContentResolves ==
    /\ ~response.received
    /\ \E r \in Responses : response' = r
    /\ UNCHANGED <<slotVars, configVars, promptHistory, resultVars, busyVars,
                   chatVars, batchVars, v120Vars, apiKey, storedAspectRatio,
                   libVars, exported, imported, parsed, analysis, flightVars>>
\* .then(response => parseImageGenerationResponse(response))
responseParsed ==
    /\ response.received
    /\ parsed = NotParsed
    /\ parsed' = parseImageGenerationResponse(response)
    /\ UNCHANGED <<slotVars, configVars, promptHistory, resultVars, busyVars,
                   chatVars, batchVars, v120Vars, apiKey, storedAspectRatio,
                   libVars, exported, imported, response, analysis, flightVars>>

(***************************************************************************)
(* Project files, v1.7.0 (App.tsx 1198-1257)                               *)
(***************************************************************************)
AppMajorVersion == 1                                   \* APP_VERSION '1.7.0'
\* handleExportProject: JSON.stringify of the exported cells. JSON keeps
\* null, numbers, strings, booleans, arrays and plain objects as they are.
handleExportProject ==
    /\ exported' = [version |-> "1.7.0",
                    uploadedImages |-> uploadedImages,
                    prompt |-> prompt,
                    controlLayers |-> controlLayers,
                    lockedCharacter |-> lockedCharacter,
                    styleReferenceIndex |-> styleReferenceIndex,
                    aspectRatio |-> aspectRatio,
                    useGoogleSearch |-> useGoogleSearch,
                    numberOfVariations |-> numberOfVariations,
                    promptTemplates |-> promptTemplates,
                    seed |-> seed,
                    isSeedLocked |-> isSeedLocked]
    /\ UNCHANGED <<slotVars, configVars, promptHistory, resultVars, busyVars,
                   chatVars, batchVars, v120Vars, apiKey, storedAspectRatio,
                   libVars, imported, response, parsed, analysis, flightVars>>

\* Files written by another installation: a newer major version, and a file
\* that omits its optional fields (an omitted field holds the null of its
\* type: "", NullIndex, 0, NullSeed, FALSE).
ForeignFiles ==
    [version : {"1.7.0", "2.0.0"},
     uploadedImages : {EmptySlots},
     prompt : {"", "add a red hat"},
     controlLayers : {initialControlLayers},
     lockedCharacter : {NoLock},
     styleReferenceIndex : {NullIndex},
     aspectRatio : {"", "16:9"},
     useGoogleSearch : {FALSE},
     numberOfVariations : {0},
     promptTemplates : {<<>>},
     seed : {NullSeed},
     isSeedLocked : {FALSE}]
\* What the file input can be given: the last export, or a foreign file.
ImportFiles == ForeignFiles \cup (IF exported = NoDocument THEN {} ELSE {exported})

\* handleImportProject, reader.onload: the only test on the parsed document
\* is that it is an object; each cell is set from its field, `||` replacing
\* every falsy value (null, '', 0, false) by the default.
ImportProject(data) ==
    /\  /\ imported' = data
        /\ error' = NullText
        /\ uploadedImages' = data.uploadedImages
        /\ prompt' = data.prompt
        /\ controlLayers' = data.controlLayers
        /\ lockedCharacter' = data.lockedCharacter
        /\ styleReferenceIndex' = IF data.styleReferenceIndex = 0 THEN NullIndex
                                  ELSE data.styleReferenceIndex
        /\ aspectRatio' = IF data.aspectRatio = "" THEN "1:1" ELSE data.aspectRatio
        /\ SyncCustomAspectRatio
        /\ SaveAspectRatio
        /\ useGoogleSearch' = data.useGoogleSearch
        /\ numberOfVariations' = IF data.numberOfVariations = 0 THEN 1
                                 ELSE data.numberOfVariations
        /\ seed' = data.seed
        /\ isSeedLocked' = data.isSeedLocked
        /\ promptTemplates' = data.promptTemplates
    /\ results' = <<>>
    /\ selectedHistoryImageSrc' = NoImage
    /\ chatHistory' = <<>>
    /\ UNCHANGED <<editingState, promptHistory, generationHistory, isLoading,
                   loadingMessage, isChatLoading, batchVars, v120Vars, apiKey,
                   exported, response, parsed, analysis, editingTemplateIndex,
                   workflowPresets, flightVars>>
handleImportProject == \E data \in ImportFiles : ImportProject(data)
\* the file input is given the last export, or a file of another
\* installation that carries a prompt and a ratio
importExportedOrBare ==
    \E data \in ImportFiles :
        /\ data \in ForeignFiles => (data.version = "1.7.0" /\ data.prompt # ""
                                       /\ data.aspectRatio # "")
        /\ ImportProject(data)

\* The page is loaded again: every cell is constructed anew (App.tsx
\* 819-895); aspectRatio, promptHistory and generationHistory are read back
\* from localStorage, and whatever was in flight is gone.
reload ==
    /\ uploadedImages' = EmptySlots
    /\ prompt' = ""
    /\ controlLayers' = initialControlLayers
    /\ editingState' = InactiveEdit
    /\ lockedCharacter' = NoLock
    /\ styleReferenceIndex' = NullIndex
    /\ seed' = NullSeed
    /\ isSeedLocked' = FALSE
    /\ aspectRatio' = storedAspectRatio
    /\ customAspectRatio' = CustomAfter(storedAspectRatio)
    /\ useGoogleSearch' = FALSE
    /\ numberOfVariations' = 1
    /\ results' = <<>>
    /\ selectedHistoryImageSrc' = NoImage
    /\ isLoading' = FALSE
    /\ loadingMessage' = ""
    /\ error' = NullText
    /\ chatHistory' = <<>>
    /\ isChatLoading' = FALSE
    /\ batchPrompts' = <<>>
    /\ batchResults' = <<>>
    /\ isBatchRunning' = FALSE
    /\ currentBatchIndex' = 0
    /\ reader' = IdleReader
    /\ gen' = IdleGen
    /\ chat' = IdleChat
    /\ batch' = IdleBatch
    /\ analysis' = IdleAnalysis
    /\ editingTemplateIndex' = NullIndex
    /\ UNCHANGED <<promptHistory, generationHistory, v120Vars, apiKey,
                   storedAspectRatio, exported, imported, response, parsed,
                   promptTemplates, workflowPresets, nextOp, generated>>

(***************************************************************************)
(* The state after construction (App.tsx 819-895)                          *)
(***************************************************************************)
\* storedRatio and storedHistory are what localStorage holds under
\* 'ai-app-aspectRatio' and 'ai-app-generationHistory'; the mount run of the
\* custom-ratio effect is included.
ConstructedWith(storedRatio, storedHistory, key, storedTemplates, storedPresets) ==
    /\ uploadedImages = EmptySlots
    /\ prompt = ""
    /\ controlLayers = initialControlLayers
    /\ editingState = InactiveEdit
    /\ lockedCharacter = NoLock
    /\ styleReferenceIndex = NullIndex
    /\ seed = NullSeed
    /\ isSeedLocked = FALSE
    /\ aspectRatio = storedRatio
    /\ customAspectRatio = CustomAfter(storedRatio)
    /\ useGoogleSearch = FALSE
    /\ numberOfVariations = 1
    /\ promptHistory = <<>>
    /\ generationHistory = storedHistory
    /\ results = <<>>
    /\ selectedHistoryImageSrc = NoImage
    /\ isLoading = FALSE
    /\ loadingMessage = ""
    /\ error = NullText
    /\ chatHistory = <<>>
    /\ isChatLoading = FALSE
    /\ batchPrompts = <<>>
    /\ batchResults = <<>>
    /\ isBatchRunning = FALSE
    /\ currentBatchIndex = 0
    /\ editMode = "pose"
    /\ canvasImage = NoImage
    /\ maskImage = NoImage
    /\ maskingImage = NoMasking
    /\ apiKey = key
    /\ storedAspectRatio = storedRatio
    /\ exported = NoDocument
    /\ imported = NoDocument
    /\ response = NoResponse
    /\ parsed = NotParsed
    /\ analysis = IdleAnalysis
    /\ promptTemplates = storedTemplates
    /\ editingTemplateIndex = NullIndex
    /\ workflowPresets = storedPresets
    /\ reader = IdleReader
    /\ gen = IdleGen
    /\ chat = IdleChat
    /\ batch = IdleBatch
    /\ nextOp = 0
    /\ generated = 0
\* a first visit as far as templates and presets go
Constructed(storedRatio, storedHistory, key) ==
    ConstructedWith(storedRatio, storedHistory, key, <<>>, <<>>)

(***************************************************************************)
(* SpecSlots: the uploaded-image slots and the state derived from them     *)
(***************************************************************************)
StoredHistories == {<<>>, <<Result(StoredImage(1), NullSeed)>>}
InitSlots ==
    \E storedHistory \in StoredHistories :
        Constructed("1:1", storedHistory, TRUE)
NextSlots ==
    \/ processFile
    \/ readerLoadEnd
    \/ handleRemoveImage
    \/ handleCropComplete
    \/ handleUseAsInput
    \/ handleSetCharacterLock
    \/ handleToggleStyleReference
    \/ setAspectRatio
SpecSlots == InitSlots /\ [][NextSlots]_vars

(***************************************************************************)
(* SpecGen: Generate actions with their N-variation fan-out                *)
(***************************************************************************)
InitGen == Constructed("1:1", <<>>, TRUE)
NextGen ==
    \/ handlePromptChange
    \/ setNumberOfVariations
    \/ setUseGoogleSearch
    \/ handleGenerate
    \/ remoteCallSettles
SpecGen == InitGen /\ [][NextGen]_vars

(***************************************************************************)
(* SpecCase: what handleGenerate is invoked with, from the Generate button *)
(* and from the mask editor, one variation per action                      *)
(***************************************************************************)
InitCase == Constructed("1:1", <<>>, TRUE)
NextCase ==
    \/ handlePromptChange
    \/ handleLayersUpdate
    \/ processFile
    \/ readerLoadEnd
    \/ handleRemoveImage
    \/ handleGenerate
    \/ remoteCallSettles
    \/ handleStartEditing
    \/ handleCloseEditor
    \/ handleEditConfirm
SpecCase == InitCase /\ [][NextCase]_vars

(***************************************************************************)
(* SpecBatch: one image slot filled, then batch runs                       *)
(***************************************************************************)
InitBatch ==
    \E storedHistory \in StoredHistories, key \in BOOLEAN :
        Constructed("1:1", storedHistory, key)
NextBatch ==
    \/ processFile
    \/ readerLoadEnd
    \/ handleStartBatch
    \/ batchCallSettles
SpecBatch == InitBatch /\ [][NextBatch]_vars

(***************************************************************************)
(* SpecChat: single-variation Generate actions, chat edits on their        *)
(* results, and changes of the uploaded images                             *)
(***************************************************************************)
InitChat == Constructed("1:1", <<>>, TRUE)
NextChat ==
    \/ handlePromptChange
    \/ processFile
    \/ readerLoadEnd
    \/ handleRemoveImage
    \/ handleClearHistory
    \/ handleGenerate
    \/ remoteCallSettles
    \/ handleChatEdit
    \/ chatCallSettles
SpecChat == InitChat /\ [][NextChat]_vars

(***************************************************************************)
(* Spec120: v1.2.0, Generate actions, history panel and project import     *)
(***************************************************************************)
Init120 == Constructed("1:1", <<>>, TRUE)
Next120 ==
    \/ setEditMode_v120
    \/ handleCanvasUpdate_v120
    \/ handlePromptChange
    \/ handleImportProject_v120
    \/ handleGenerate_v120
    \/ remoteCallSettles_v120
    \/ handleDeleteFromHistory_v120
    \/ handleClearHistory_v120
Spec120 == Init120 /\ [][Next120]_vars

(***************************************************************************)
(* SpecInvalid: v1.2.0, handleGenerate called on every combination of      *)
(* edit mode, pose drawing, prompt and imported images. The Generate       *)
(* button is disabled in the states where no case applies, so the handler  *)
(* is called directly, as its contract is stated.                          *)
(***************************************************************************)
InitInvalid == \E key \in BOOLEAN : Constructed("1:1", <<>>, key)
NextInvalid ==
    \/ setEditMode_v120
    \/ handleCanvasUpdate_v120
    \/ handlePromptChange
    \/ handleImportProject_v120
    \/ callHandleGenerate_v120
    \/ remoteCallSettles_v120
SpecInvalid == InitInvalid /\ [][NextInvalid]_vars

(***************************************************************************)
(* SpecTemplates: the prompt-template menu, starting from the list an      *)
(* earlier session left in localStorage                                    *)
(***************************************************************************)
StoredTemplateCounts == {0, 19, 20}
InitTemplates ==
    \E n \in StoredTemplateCounts :
        ConstructedWith("1:1", <<>>, TRUE, StoredTemplates(n), <<>>)
NextTemplates ==
    \/ handleSavePromptTemplate
    \/ handleDeletePromptTemplate
    \/ startEditingTemplate
    \/ cancelEditingTemplate
    \/ handleUpdatePromptTemplate
SpecTemplates == InitTemplates /\ [][NextTemplates]_vars

(***************************************************************************)
(* SpecPresets: prompt and search-grounding changes, presets saved,        *)
(* loaded and deleted                                                      *)
(***************************************************************************)
InitPresets == Constructed("1:1", <<>>, TRUE)
NextPresets ==
    \/ handlePromptChange
    \/ setUseGoogleSearch
    \/ handleSavePreset
    \/ handleLoadPreset
    \/ handleDeletePreset
SpecPresets == InitPresets /\ [][NextPresets]_vars

(***************************************************************************)
(* SpecFail: the Generate button and the mask editor as in SpecCase, with  *)
(* or without an API key and with a generation history left by an earlier  *)
(* session                                                                 *)
(***************************************************************************)
InitFail ==
    \E storedHistory \in StoredHistories, key \in BOOLEAN :
        Constructed("1:1", storedHistory, key)
SpecFail == InitFail /\ [][NextCase]_vars

(***************************************************************************)
(* SpecMask: v1.2.0, the three slots filled and emptied, masks painted,    *)
(* prompt-mode Generate actions                                            *)
(***************************************************************************)
InitMask == Constructed("1:1", <<>>, TRUE)
NextMask ==
    \/ uploadOrRemove_v120
    \/ handleStartMasking_v120
    \/ handleMaskComplete_v120
    \/ handlePromptChange
    \/ handleGenerate_v120
    \/ remoteCallSettles_v120
SpecMask == InitMask /\ [][NextMask]_vars

(***************************************************************************)
(* SpecRefs: v1.7.0, everything that writes the uploaded images, the       *)
(* character lock or the style reference: uploads, removals, use as input, *)
(* lock and style buttons, presets, project export and import              *)
(***************************************************************************)
InitRefs == Constructed("1:1", <<Result(StoredImage(1), NullSeed)>>, TRUE)
\* the copies of the cells kept outside them: saved presets, the exported
\* project file, and the render a pending file read was started in
Snapshots ==
    Len(workflowPresets) + (IF exported = NoDocument THEN 0 ELSE 1)
        + (IF reader.state = "reading" THEN 1 ELSE 0)
processFileWithinBound == Snapshots < MaxSnapshots /\ processFile
savePresetWithinBound == Snapshots < MaxSnapshots /\ handleSavePreset
exportProjectWithinBound == Snapshots < MaxSnapshots /\ handleExportProject
NextRefs ==
    \/ processFileWithinBound
    \/ readerLoadEnd
    \/ handleRemoveImage
    \/ handleUseAsInput
    \/ handleSetCharacterLock
    \/ handleToggleStyleReference
    \/ savePresetWithinBound
    \/ handleLoadPreset
    \/ exportProjectWithinBound
    \/ importExportedOrBare
SpecRefs == InitRefs /\ [][NextRefs]_vars

(***************************************************************************)
(* SpecProject: v1.7.0, uploads, style reference and prompt, project       *)
(* export and import, page reloads                                         *)
(***************************************************************************)
InitProject == Constructed("1:1", <<>>, TRUE)
NextProject ==
    \/ processFile
    \/ readerLoadEnd
    \/ handleToggleStyleReference
    \/ handlePromptChange
    \/ handleExportProject
    \/ handleImportProject
    \/ reload
SpecProject == InitProject /\ [][NextProject]_vars

(***************************************************************************)
(* SpecStore: v1.7.0, the aspect ratio and its stored copy across uploads, *)
(* ratio choices, imports and page reloads                                 *)
(***************************************************************************)
InitStore == Constructed("1:1", <<>>, TRUE)
NextStore ==
    \/ processFile
    \/ readerLoadEnd
    \/ handleRemoveImage
    \/ setAspectRatio
    \/ handleCustomAspectRatioChange
    \/ handleImportProject
    \/ reload
SpecStore == InitStore /\ [][NextStore]_vars

(***************************************************************************)
(* SpecOriginal: v1.7.0, uploads, page reloads and Generate actions        *)
(***************************************************************************)
InitOriginal == Constructed("1:1", <<>>, TRUE)
NextOriginal ==
    \/ processFile
    \/ readerLoadEnd
    \/ reload
    \/ handlePromptChange
    \/ handleGenerate
    \/ remoteCallSettles
SpecOriginal == InitOriginal /\ [][NextOriginal]_vars

(***************************************************************************)
(* SpecParse: one response of the multimodal operation and its             *)
(* normalization                                                           *)
(***************************************************************************)
InitParse == Constructed("1:1", <<>>, TRUE)
NextParse ==
    \/ generateContentResolves
    \/ responseParsed
SpecParse == InitParse /\ [][NextParse]_vars

(***************************************************************************)
(* SpecSeed: the seed input and its lock, search-grounded and plain        *)
(* Generate actions, chat edits                                            *)
(***************************************************************************)
InitSeed == Constructed("1:1", <<>>, TRUE)
NextSeed ==
    \/ handlePromptChange
    \/ setSeed
    \/ setIsSeedLocked
    \/ setUseGoogleSearch
    \/ handleGenerate
    \/ remoteCallSettles
    \/ handleChatEdit
    \/ chatCallSettles
SpecSeed == InitSeed /\ [][NextSeed]_vars

(***************************************************************************)
(* SpecKey: sessions of a build without API key; every handler that awaits *)
(* a remote operation and can be started in such a session (a chat edit    *)
(* cannot: the chat editor is shown after a successful Generate action)    *)
(***************************************************************************)
InitKey == \E storedHistory \in StoredHistories : Constructed("1:1", storedHistory, FALSE)
NextKey ==
    \/ processFile
    \/ readerLoadEnd
    \/ handlePromptChange
    \/ handleLayersUpdate
    \/ handleSelectFromHistory
    \/ handleStartEditing
    \/ handleEditConfirm
    \/ handleGenerate
    \/ handleAnalyzePose
    \/ handleAnalyzeStyle
    \/ handleGenerateControlMap
SpecKey == InitKey /\ [][NextKey]_vars

(***************************************************************************)
(* Properties of the uploaded-image slots (SpecSlots)                      *)
(***************************************************************************)
\* C7: in every step that changes the uploaded images while a character lock
\* is set, the lock is cleared if the locked slot is empty after the step, and
\* is left as it was if the locked slot is still filled.
C7_LockClearedWithSlot ==
    [][ (lockedCharacter # NoLock /\ uploadedImages' # uploadedImages) =>
            IF uploadedImages'[lockedCharacter.index] = NoImage
            THEN lockedCharacter' = NoLock
            ELSE lockedCharacter' = lockedCharacter ]_vars

\* C8: in every step that changes the uploaded images while a style reference
\* is designated, the style reference index becomes null if its slot is empty
\* after the step, and is unchanged otherwise.
C8_StyleClearedWithSlot ==
    [][ (styleReferenceIndex # NullIndex /\ uploadedImages' # uploadedImages) =>
            IF uploadedImages'[styleReferenceIndex] = NoImage
            THEN styleReferenceIndex' = NullIndex
            ELSE styleReferenceIndex' = styleReferenceIndex ]_vars

\* C9: in every step that takes the uploaded images from all-empty to
\* non-empty the aspect ratio becomes 'original'; in every step that takes
\* them from non-empty to all-empty while the ratio is 'original' the ratio
\* becomes '1:1'.
C9_AspectRatioSnaps ==
    [][ /\ (~HasAny(uploadedImages) /\ HasAny(uploadedImages'))
            => aspectRatio' = "original"
        /\ (HasAny(uploadedImages) /\ ~HasAny(uploadedImages')
              /\ aspectRatio = "original")
            => aspectRatio' = "1:1" ]_vars

(***************************************************************************)
(* Properties of the Generate action (SpecGen)                             *)
(***************************************************************************)
\* the images the remote calls of Generate action op return
ImagesOf(op) == {GenImage(op, i) : i \in 1..MaxVariations}

\* C2: once one of the concurrent remote calls of a Generate action has
\* failed, the action has failed as a whole: the error message is set,
\* nothing is loading, and no image of that action is in generationHistory
\* or in the displayed results, whatever the other calls did.
C2_AllOrNothing ==
    (\E i \in DOMAIN gen.calls : gen.calls[i] = "fail") =>
        /\ gen.pc = "failed"
        /\ error # NullText
        /\ ~isLoading
        /\ \A r \in Range(generationHistory) \cup Range(results) :
              r.image \notin ImagesOf(gen.op)
\* a 3-variation action of which two calls succeeded before the third failed,
\* with the results of an earlier action still in the history
C2_Witness ==
    /\ gen.pc = "failed"
    /\ Len(gen.calls) = 3
    /\ Len(gen.settled) = 3
    /\ gen.calls[gen.settled[3]] = "fail"
    /\ generationHistory # <<>>

\* C5: with the history empty at the start and no deletion, after the
\* Generate actions that succeeded so far have produced N results in all, the
\* history holds min(N, 10) results; its first element is the result of the
\* first request (not of the first call that completed) of the Generate
\* action that completed last.
C5_HistoryLengthAndHead ==
    /\ Len(generationHistory) = Min(generated, HistoryCap)
    /\ generationHistory # <<>> =>
          /\ generationHistory[1].image.kind = "gen"
          /\ generationHistory[1].image.req = 1
          /\ \A k \in DOMAIN generationHistory :
                generationHistory[k].image.gen <= generationHistory[1].image.gen
    /\ gen.pc = "done" => generationHistory[1].image = GenImage(gen.op, 1)
\* more results than the cap were produced, and in the action that completed
\* last the first request was not the first to complete
C5_Witness ==
    /\ generated > HistoryCap
    /\ gen.pc = "done"
    /\ Len(gen.settled) > 1
    /\ gen.settled[1] # 1

\* C6: when the N remote calls of an N-variation request have all succeeded,
\* the i-th displayed result and the i-th element of the block prepended to
\* the history are the image returned to the i-th request, in whatever order
\* the calls completed.
C6_ResultsInRequestOrder ==
    (gen.pc = "done" /\ gen.multi) =>
        /\ Len(results) = Len(gen.calls)
        /\ \A i \in DOMAIN gen.calls :
              /\ results[i].image = GenImage(gen.op, i)
              /\ i <= HistoryCap => generationHistory[i].image = GenImage(gen.op, i)
\* three calls that completed in the order 3, 1, 2
C6_Witness ==
    /\ gen.pc = "done"
    /\ gen.multi
    /\ gen.settled = <<3, 1, 2>>

(***************************************************************************)
(* Properties of the case selection (SpecCase)                             *)
(***************************************************************************)
\* C1: every invocation of handleGenerate selects the first case of the
\* documented priority order whose precondition holds in the state it is
\* invoked with: mask-edit (an edit in progress with base image and mask, and
\* a non-empty prompt), control-layer composition (a control layer holds an
\* image), text-to-image (non-empty prompt, no uploaded image), prompt-driven
\* image edit (non-empty prompt, an uploaded image), else invalid. (v1.7.0 has
\* no draw mode; its pose skeleton is one of the control layers.)
C1_DocumentedCaseSelected ==
    LET maskEdit == gen.ces.isActive /\ gen.ces.editImage # NoImage
                       /\ gen.ces.editMask # NoImage
        withPrompt == gen.prompt # ""
        withImages == gen.firstImage # NoImage
        documented ==
            IF maskEdit /\ withPrompt THEN "mask-edit"
            ELSE IF gen.activeControl THEN "control-layers"
            ELSE IF withPrompt /\ ~withImages THEN "text-to-image"
            ELSE IF withPrompt /\ withImages THEN "image-edit"
            ELSE "invalid"
    IN gen.pc # "idle" => gen.case = documented

(***************************************************************************)
(* Properties of batch processing (SpecBatch)                              *)
(***************************************************************************)
\* the images of the items of the batch run that succeeded, in list order
SucceededItems ==
    LET ok(k) == batch.outcomes[k] = "ok"
        items == SelectSeq([k \in DOMAIN batch.outcomes |-> k], ok)
    IN [j \in DOMAIN items |-> GenImage(batch.ops[items[j]], 1)]

\* C3: in a batch run the failure of an item's remote call does not end the
\* run: while a prompt is left the run is still running and is working on
\* the prompt after the last one that settled; the images of all the items
\* that succeeded so far, before or after a failed one, are batchResults
\* (in list order) and are in generationHistory; and when every prompt has
\* been processed isBatchRunning is false.
C3_BatchFaultIsolation ==
    batch.pc # "idle" =>
        /\ [j \in DOMAIN batchResults |-> batchResults[j].image] = SucceededItems
        /\ \A j \in DOMAIN SucceededItems :
              \E r \in Range(generationHistory) : r.image = SucceededItems[j]
        /\ batch.pc = "awaiting" =>
              /\ isBatchRunning
              /\ Len(batch.outcomes) < Len(batch.prompts)
              /\ currentBatchIndex = Len(batch.outcomes)
        /\ batch.pc = "done" =>
              /\ ~isBatchRunning
              /\ Len(batch.outcomes) = Len(batch.prompts)
\* a finished run of three prompts whose second item failed and whose first
\* and third succeeded
C3_Witness ==
    /\ batch.pc = "done"
    /\ ~isBatchRunning
    /\ batch.outcomes = <<"ok", "fail", "ok">>
    /\ Len(batchResults) = 2

(***************************************************************************)
(* Properties of the chat history (SpecChat)                               *)
(***************************************************************************)
\* C10: every step that changes the uploaded images, and every step that
\* empties the generation history together with the displayed results,
\* leaves the chat history empty, so that a later chat edit is given no
\* message from before the change.
C10_ChatResetWithBaseImages ==
    [][ /\ uploadedImages' # uploadedImages => chatHistory' = <<>>
        /\ (generationHistory # <<>> /\ generationHistory' = <<>> /\ results' = <<>>)
              => chatHistory' = <<>> ]_vars

(***************************************************************************)
(* Properties of the generation history (Spec120)                          *)
(***************************************************************************)
\* C4: in every reachable state the generation history holds at most 10
\* results (at most 50 once a batch run has filled it), whatever sequence of
\* generate, delete, clear and project-import operations led there.
C4_HistoryWithinCap ==
    Len(generationHistory) <= IF batch.pc = "idle" THEN HistoryCap ELSE BatchHistoryCap

(***************************************************************************)
(* Properties of project files (SpecProject)                               *)
(***************************************************************************)
\* C11: a step that imports a project file whose major version is above the
\* application's sets the version-mismatch error and changes no other cell
\* of the session.
C11_NewerVersionRejected ==
    [][ (imported' # imported /\ MajorVersion(imported'.version) > AppMajorVersion)
        => /\ error' = ErrVersion
           /\ UNCHANGED <<slotVars, configVars, promptHistory, resultVars,
                          isLoading, loadingMessage, chatVars, batchVars>> ]_vars

\* The cells a project file carries, as a freshly loaded page holds them
FreshSession ==
    /\ uploadedImages = EmptySlots /\ prompt = ""
    /\ controlLayers = initialControlLayers
    /\ lockedCharacter = NoLock /\ styleReferenceIndex = NullIndex
    /\ useGoogleSearch = FALSE /\ numberOfVariations = 1
    /\ seed = NullSeed /\ isSeedLocked = FALSE

\* C12: a step that imports the last exported project file into a fresh
\* session gives every exported cell the value the file holds, slot index 0
\* of the style reference and of the character lock included; a field the
\* imported file omits takes its default.
C12_RoundTrip ==
    [][ (imported' # imported /\ FreshSession)
        => /\ imported' = exported
              => /\ uploadedImages' = exported.uploadedImages
                 /\ prompt' = exported.prompt
                 /\ controlLayers' = exported.controlLayers
                 /\ lockedCharacter' = exported.lockedCharacter
                 /\ styleReferenceIndex' = exported.styleReferenceIndex
                 /\ aspectRatio' = exported.aspectRatio
                 /\ useGoogleSearch' = exported.useGoogleSearch
                 /\ numberOfVariations' = exported.numberOfVariations
                 /\ seed' = exported.seed
                 /\ isSeedLocked' = exported.isSeedLocked
           /\ imported'.aspectRatio = "" => aspectRatio' = "1:1"
           /\ imported'.numberOfVariations = 0 => numberOfVariations' = 1 ]_vars

(***************************************************************************)
(* Properties of the aspect ratio (SpecStore, SpecOriginal)                *)
(***************************************************************************)
\* C13: in every reachable state, whatever ratio buttons, custom entries,
\* uploads and imports came before, the aspect ratio held in localStorage is
\* not 'original'.
C13_OriginalNeverStored == storedAspectRatio # "original"

\* C14: a Generate action, chat edit or batch run never hands the literal
\* 'original' to its remote operation, and one started while the aspect
\* ratio is 'original' and no image is uploaded hands over '1:1'.
C14_OriginalWithoutImageIsSquare ==
    [][ /\ gen'.op > gen.op
           => /\ gen'.ratio # "original"
              /\ (aspectRatio = "original" /\ ~hasImages) => gen'.ratio = "1:1"
        /\ chat'.op > chat.op
           => /\ chat'.ratio # "original"
              /\ (aspectRatio = "original" /\ ~hasImages) => chat'.ratio = "1:1"
        /\ (batch.pc = "idle" /\ batch'.pc # "idle")
           => /\ batch'.ratio # "original"
              /\ (aspectRatio = "original" /\ ~hasImages) => batch'.ratio = "1:1" ]_vars

(***************************************************************************)
(* Properties of the prompt history (SpecBatch)                            *)
(***************************************************************************)
\* C15: in every reachable state the prompt history holds at most 50
\* entries and no prompt twice, and while a batch item is being processed
\* its prompt is the first entry, also when the batch list holds the same
\* prompt more than once.
C15_PromptHistoryRecencySet ==
    /\ Len(promptHistory) <= PromptHistoryCap
    /\ \A i, j \in DOMAIN promptHistory :
          promptHistory[i] = promptHistory[j] => i = j
    /\ batch.pc = "awaiting"
          => promptHistory[1] = batch.prompts[Len(batch.outcomes) + 1]

(***************************************************************************)
(* Properties of response normalization (SpecParse)                        *)
(***************************************************************************)
ContentParts == IF response.candidates # <<>> THEN response.candidates[1] ELSE <<>>
ImageParts == SelectSeq(ContentParts, LAMBDA part : part.kind = "inlineData")
RECURSIVE JoinTexts(_)
JoinTexts(parts) ==
    IF parts = <<>> THEN ""
    ELSE Head(parts).text \o JoinTexts(Tail(parts))

\* C17: once a response is normalized, if it holds an image part the result
\* is returned with one image, which is not null and is the data URL of one
\* of the image parts; if it holds none, nothing is returned and the error
\* raised is the 'did not return an image' message followed by the text
\* parts joined in their order.
C17_OneImageOrRefusalText ==
    parsed # NotParsed
    => IF ImageParts # <<>>
       THEN /\ parsed.status = "returned"
            /\ parsed.image # NullText
            /\ \E k \in DOMAIN ImageParts :
                  parsed.image = "data:image/png;base64," \o ImageParts[k].data
       ELSE /\ parsed.status = "thrown"
            /\ parsed.image = NullText
            /\ parsed.message = ErrNoImage \o JoinTexts(ContentParts)
C17_Witness ==
    /\ parsed.status = "thrown"
    /\ ContentParts = <<TextPart("I cannot "), TextPart(""), TextPart("draw that.")>>
    /\ parsed.message = ErrNoImage \o "I cannot draw that."

ErrPrefix == "check your input."
Clause(p) ==
    CASE p = "image" -> " an input image is needed."
      [] p = "pose" -> " a pose drawing is needed."
      [] p = "prompt" -> " a text prompt is needed."
ComposeMessage(S) ==
    ErrPrefix \o (IF "image" \in S THEN Clause("image") ELSE "")
              \o (IF "pose" \in S THEN Clause("pose") ELSE "")
              \o (IF "prompt" \in S THEN Clause("prompt") ELSE "")
NamedIn(msg) ==
    IF msg = ErrInvalid THEN {"prompt", "image"}
    ELSE UNION {S \in SUBSET {"image", "pose", "prompt"} : msg = ComposeMessage(S)}
\* The inputs that are missing in the current state.
MissingInputs ==
    (IF ValidImages(uploadedImages) = <<>> THEN {"image"} ELSE {})
    \cup (IF canvasImage = NoImage THEN {"pose"} ELSE {})
    \cup (IF ~hasPrompt THEN {"prompt"} ELSE {})

\* C19: when no generation case applies, handleGenerate issues no remote
\* call, leaves the generation history as it was, and sets an error message
\* that names at least one input that is actually missing, never the
\* generic first line alone.
C19_InvalidNamesMissingInput ==
    [][(gen' # gen /\ gen'.pc = "failed" /\ gen'.case = "invalid") =>
          /\ gen'.calls = <<>>
          /\ nextOp' = nextOp
          /\ ~isLoading'
          /\ generationHistory' = generationHistory
          /\ error' # ErrPrefix
          /\ NamedIn(error') \cap MissingInputs # {}]_vars
\* handleGenerate was called in prompt mode with an image and no prompt; the
\* message names the prompt only.
C19_Witness ==
    /\ gen.pc = "failed" /\ gen.case = "invalid"
    /\ editMode = "prompt" /\ ~hasPrompt /\ hasImages
    /\ error = ComposeMessage({"prompt"})

\* C20: the mask-edit case is selected only when the edit in progress
\* carries a base image and a mask and the prompt is non-empty; with an
\* empty prompt the mask-edit remote operation is never invoked.
C20_MaskEditNeedsPrompt ==
    gen.case = "mask-edit" /\ gen.pc # "idle" =>
        /\ gen.ces.isActive
        /\ gen.ces.editImage # NoImage
        /\ gen.ces.editMask # NoImage
        /\ gen.prompt # ""

\* C21: batch processing is strictly sequential: the call for an item is
\* issued only after the calls of all items before it have settled, so at
\* most one batch call is in flight, and the items are served in list order.
C21_BatchSequential ==
    /\ Len(batch.ops) <= Len(batch.prompts)
    /\ Len(batch.outcomes) <= Len(batch.ops)
    /\ Len(batch.ops) - Len(batch.outcomes) <= 1
    /\ batch.pc = "awaiting" <=> Len(batch.ops) = Len(batch.outcomes) + 1
    /\ \A i, j \in DOMAIN batch.ops : i < j => batch.ops[i] < batch.ops[j]
    /\ batch.pc # "idle" => currentBatchIndex = Len(batch.ops) - 1
\* the second item's call is in flight after the first item's call failed
C21_Witness ==
    /\ batch.pc = "awaiting"
    /\ Len(batch.prompts) = 3
    /\ Len(batch.ops) = 2
    /\ batch.outcomes = <<"fail">>

\* C22: between the issue of the variation calls of a Generate action and
\* the join of all of them, no step of any action writes the generation
\* history, the results or the chat history.
C22_NoWriteBeforeJoin ==
    [][(gen.pc = "awaiting" /\ gen'.pc = "awaiting") =>
          UNCHANGED <<generationHistory, results, chatHistory>>]_vars

\* C23: after any sequence of save, inline-update and delete operations the
\* template list holds at most 20 entries and no two equal entries; a save
\* puts a new text first and keeps the order of the rest, an update changes
\* one entry in place, a delete keeps the order of the rest; a save or an
\* update to a text that is already in the list leaves the list unchanged.
NoDuplicates(q) == \A i, j \in DOMAIN q : i # j => q[i] # q[j]
Without(q, k) == SubSeq(q, 1, k - 1) \o SubSeq(q, k + 1, Len(q))
TemplatesWellFormed ==
    /\ Len(promptTemplates) <= TemplateCap
    /\ NoDuplicates(promptTemplates)
    /\ \A k \in DOMAIN promptTemplates :
          promptTemplates[k] # "" /\ Trim(promptTemplates[k]) = promptTemplates[k]
TemplatesStep ==
    LET old == promptTemplates
        new == promptTemplates'
        fresh(t) == \A k \in DOMAIN old : old[k] # t
    IN new # old =>
          \/ new # <<>> /\ fresh(new[1]) /\ new = Slice(<<new[1]>> \o old, TemplateCap)
          \/ /\ Len(new) = Len(old)
             /\ \E k \in DOMAIN old : fresh(new[k]) /\ new = [old EXCEPT ![k] = new[k]]
          \/ \E k \in DOMAIN old : new = Without(old, k)
C23_TemplatesCappedUnique == []TemplatesWellFormed /\ [][TemplatesStep]_vars
C23_Witness ==
    /\ Len(promptTemplates) = TemplateCap
    /\ promptTemplates[1] = "sunset"
    /\ promptTemplates[2] = "portrait"
    /\ promptTemplates[3] = "stored 2"

\* C24: preset names are unique in every reachable state; a save puts the
\* preset of the current cells first and removes the older preset of that
\* name, keeping the others in order; a delete removes exactly one preset;
\* nothing else changes the list.
PresetNamesUnique ==
    \A i, j \in DOMAIN workflowPresets :
        i # j => workflowPresets[i].name # workflowPresets[j].name
PresetsStep ==
    LET old == workflowPresets
        new == workflowPresets'
    IN new # old =>
          \/ /\ new # <<>>
             /\ new[1].state = PresetState
             /\ LET other(p) == p.name # new[1].name
                IN new = <<new[1]>> \o SelectSeq(old, other)
          \/ \E k \in DOMAIN old : new = Without(old, k)
GenerateFails == gen' # gen /\ gen'.pc = "failed"
C25_FailedGenerateFrame ==
    [][GenerateFails =>
          /\ UNCHANGED <<generationHistory, slotVars, prompt, controlLayers, seed,
                         isSeedLocked, useGoogleSearch, numberOfVariations,
                         isChatLoading, batchVars, libVars>>
          /\ promptHistory' \in {promptHistory, PushPrompt(promptHistory, prompt)}
          /\ chatHistory' \in {chatHistory, <<>>}
          /\ editingState' \in {editingState, InactiveEdit}]_vars
\* C25 as stated: nothing but the error message, the busy flag and the
\* result view changes in that step.
C25_OnlyErrorBusyResults ==
    [][GenerateFails =>
          UNCHANGED <<generationHistory, slotVars, configVars, promptHistory,
                      chatVars, batchVars, libVars>>]_vars
\* a remote failure of a Generate action, with an image uploaded and the
\* stored history still in place
C25_Witness ==
    /\ gen.pc = "failed" /\ gen.op > 0
    /\ error = ErrRemote
    /\ generationHistory # <<>>
    /\ hasImages

\* C26: from the moment Generate is triggered until its remote operation
\* settles, isLoading is true and no other Generate action is started; at
\* settlement, success or failure, isLoading is false, the loading message is
\* empty and the editing state is inactive, and isLoading stays false until
\* the next trigger.
LoadingWhileAwaiting == isLoading <=> gen.pc = "awaiting"
AwaitingStep ==
    gen.pc = "awaiting" =>
        /\ gen'.op = gen.op
        /\ nextOp' = nextOp
        /\ gen'.pc # "awaiting" =>
              /\ gen'.pc \in {"done", "failed"}
              /\ ~isLoading'
              /\ loadingMessage' = ""
              /\ editingState' = InactiveEdit
C26_BusyUntilSettled == []LoadingWhileAwaiting /\ [][AwaitingStep]_vars
\* a mask edit confirmed in the editor has failed remotely
C26_Witness ==
    /\ gen.pc = "failed" /\ gen.op > 1
    /\ gen.case = "mask-edit"
    /\ error = ErrRemote
    /\ ~isLoading /\ loadingMessage = "" /\ editingState = InactiveEdit

\* C27: in every reachable state the chat history is empty or starts with a
\* user message, and every model reply in it stands directly after the user
\* message it answers.
C27_ChatAlternates ==
    \A k \in DOMAIN chatHistory :
        chatHistory[k].role = "model" =>
            k > 1 /\ chatHistory[k - 1].role = "user"

\* C28: while the seed is locked, the step that completes a Generate action
\* or a chat edit leaves the seed field as it is, and the calls of an action
\* started while the seed is locked are given the locked seed; while it is
\* unlocked, calls are issued with no seed.
C28_LockedSeedKept ==
    [][ /\ (isSeedLocked /\ gen.pc = "awaiting" /\ gen'.pc = "done") => seed' = seed
        /\ (isSeedLocked /\ chat.pc = "awaiting" /\ chat'.pc = "done") => seed' = seed
        /\ (gen.pc # "awaiting" /\ gen'.pc = "awaiting")
              => gen'.seed = IF isSeedLocked THEN seed ELSE NullSeed
        /\ (chat.pc # "awaiting" /\ chat'.pc = "awaiting")
              => chat'.seed = IF isSeedLocked THEN seed ELSE NullSeed ]_vars

\* C29: in the v1.2.0 mask flow the base image sent with a mask to the
\* mask-edit operation is the image of the slot on which that mask was
\* painted, and every change of the uploaded images discards the mask.
C29_MaskOnItsOwnImage ==
    [][ /\ (gen' # gen /\ gen'.pc = "awaiting" /\ gen'.case = "mask-edit")
              => /\ gen'.firstImage = maskImage.on
                 /\ uploadedImages[maskImage.req] = maskImage.on
        /\ uploadedImages' # uploadedImages => maskImage' = NoImage ]_vars

\* C30: whenever the character lock is set its index is one of the slots
\* 0..2 and that slot holds an image, and whenever a style reference is
\* designated its index is one of the slots 0..2 and that slot holds an image.
C30_ReferencesPointAtImages ==
    /\ lockedCharacter # NoLock =>
          /\ lockedCharacter.index \in Slots
          /\ uploadedImages[lockedCharacter.index] # NoImage
    /\ styleReferenceIndex # NullIndex =>
          /\ styleReferenceIndex \in Slots
          /\ uploadedImages[styleReferenceIndex] # NoImage
====
